---- MODULE Spec2Model ----
\* A model of the data-entry application: the entry store (the Motoko actor
\* of src/src/spec.md) and the client's import pipeline (entriesXlsxImport.ts
\* and handleFileChange of queries.ts).
\*
\* Text is modelled as a sequence of one-character strings, so that trimming,
\* splitting and the quote-aware CSV scan are computed character by character.
EXTENDS Integers, Sequences, FiniteSets, TLC

\* ------------------------------------------------------------------ bounds

\* The store's clock takes the values 0..MaxTime.
MaxTime == 1
\* An import file holds at most MaxRows lines after its header line.
MaxRows == 2
\* The form is submitted at most MaxSubmits times.
MaxSubmits == 1
\* The fields written to CSV have at most MaxFieldLen characters.
MaxFieldLen == 3
\* The amounts validated have at most MaxAmountLen characters.
MaxAmountLen == 3
\* The longest entry list given to the aggregator.
MaxEntries == 3

VARIABLES
  entries,        \* store: id -> Entry (the actor's `entries` map)
  now,            \* store: the value Time.now() returns
  reply,          \* store: the answer to the last call
  identity,       \* client: the principal of the signed-in identity
  pc,             \* client: position in handleImportClick / handleFileChange
  isImporting,    \* client: the isImporting flag of DataEntryPage
  fileText,       \* client: the text of the file being imported
  fileName,       \* client: the name of the file being imported
  parsePromise,   \* client: the promise parseXLSXFile returned
  validRows,      \* client: validRows of the parse result
  parseErrors,    \* client: errors of the parse result
  rowIdx,         \* client: index in validRows of the row the loop is at
  successCount,   \* client: successCount of the import loop
  failCount,      \* client: failCount of the import loop
  inflight,       \* client: createEntry calls sent and not yet answered
  idSeed,         \* client: how many entry ids the client has generated
  issued,         \* log: rows for which a create call was started, in order
  settled,        \* log: create calls that resolved or rejected, in order
  invalidateLog,  \* log: per invalidateQueries call, the rows settled by then
  toasts,         \* log: the notifications shown, in order
  raised,         \* client: how the last create/update/delete mutation ended
  query,          \* client: the state of the entries-list query
  exported,       \* client: what the last call of an exporter did and threw
  evaluated       \* client: the last validator or CSV helper call and its result

storeVars == <<entries, now, reply>>
importVars == <<pc, isImporting, fileText, fileName, parsePromise, validRows, parseErrors, rowIdx,
                successCount, failCount, inflight, idSeed, issued, settled,
                invalidateLog, toasts>>
uiVars == <<raised, query>>
vars == <<entries, now, reply, identity, pc, isImporting, fileText, fileName,
          parsePromise, validRows, parseErrors, rowIdx, successCount, failCount, inflight, idSeed,
          issued, settled, invalidateLog, toasts,
          raised, query, exported, evaluated>>

\* ------------------------------------------------------------ text helpers

RECURSIVE TrimLeft(_, _)
TrimLeft(s, ws) ==
  IF s # <<>> /\ Head(s) \in ws THEN TrimLeft(Tail(s), ws) ELSE s

RECURSIVE TrimRight(_, _)
TrimRight(s, ws) ==
  IF s # <<>> /\ s[Len(s)] \in ws
  THEN TrimRight(SubSeq(s, 1, Len(s) - 1), ws)
  ELSE s

\* Motoko's Text.trim(#char ' '): strips spaces, and only spaces, at both ends.
MotokoTrim(s) == TrimRight(TrimLeft(s, {" "}), {" "})

Put(f, k, v) == [x \in (DOMAIN f) \cup {k} |-> IF x = k THEN v ELSE f[x]]

Remove(f, k) == [x \in (DOMAIN f) \ {k} |-> f[x]]

\* ---------------------------------------------------------- the entry store

Principals == {"alice", "bob", "root", "carol", "anon"}

\* The role the access-control state gives each principal: alice and bob are
\* users, root is an admin, carol is signed in but was never given the user
\* role, anon is the anonymous principal.
Role(p) ==
  CASE p = "root" -> "admin"
    [] p \in {"alice", "bob"} -> "user"
    [] OTHER -> "guest"

isAdmin(caller) == Role(caller) = "admin"

hasPermission(caller, required) ==
  CASE required = "admin" -> Role(caller) = "admin"
    [] required = "user" -> Role(caller) \in {"user", "admin"}
    [] OTHER -> TRUE

Ok == [kind |-> "ok", field |-> "", message |-> ""]

Trap(msg) == [kind |-> "trap", field |-> "", message |-> msg]

Err(kind, field, msg) == [kind |-> kind, field |-> field, message |-> msg]

\* The four field checks createEntry and updateEntry share; Ok when all pass.
checkFields(input) ==
  IF MotokoTrim(input.manualDate) = <<>>
  THEN Err("emptyField", "manualDate",
           "Manual date is required. Please enter a valid date.")
  ELSE IF MotokoTrim(input.customerName) = <<>>
  THEN Err("emptyField", "customerName",
           "Customer name is required. Please enter a valid name.")
  ELSE IF MotokoTrim(input.mobileNumber) = <<>>
  THEN Err("emptyField", "mobileNumber",
           "Mobile number is required. Please enter a valid mobile number.")
  ELSE IF input.amountRs = 0
  THEN Err("invalidAmount", "",
           "Amount must be greater than zero. Please enter a valid amount.")
  ELSE Ok

\* createEntry: the answer and the map after the call. The entry is added
\* under input.id whether or not that id is already in the map.
createEntry(caller, input, ents, t) ==
  IF ~hasPermission(caller, "user")
  THEN [reply |-> Trap("Unauthorized: Only users can create entries"),
        entries |-> ents]
  ELSE IF checkFields(input).kind # "ok"
  THEN [reply |-> checkFields(input), entries |-> ents]
  ELSE [reply |-> Ok,
        entries |-> Put(ents, input.id,
                        [id |-> input.id,
                         manualDate |-> input.manualDate,
                         customerName |-> input.customerName,
                         mobileNumber |-> input.mobileNumber,
                         amountRs |-> input.amountRs,
                         createdAt |-> t,
                         owner |-> caller])]

updateEntry(caller, id, updatedFields, ents) ==
  IF ~hasPermission(caller, "user")
  THEN [reply |-> Trap("Unauthorized: Only users can update entries"),
        entries |-> ents]
  ELSE IF id \notin DOMAIN ents
  THEN [reply |-> Err("notFound", "",
                      "Entry not found. Cannot update non-existent entry."),
        entries |-> ents]
  ELSE IF ents[id].owner # caller /\ ~isAdmin(caller)
  THEN [reply |-> Err("unauthorized", "",
                      "Unauthorized: You can only update your own entries."),
        entries |-> ents]
  ELSE IF checkFields(updatedFields).kind # "ok"
  THEN [reply |-> checkFields(updatedFields), entries |-> ents]
  ELSE [reply |-> Ok,
        entries |-> Put(ents, id,
                        [id |-> ents[id].id,
                         manualDate |-> updatedFields.manualDate,
                         customerName |-> updatedFields.customerName,
                         mobileNumber |-> updatedFields.mobileNumber,
                         amountRs |-> updatedFields.amountRs,
                         createdAt |-> ents[id].createdAt,
                         owner |-> ents[id].owner])]

\* deleteEntry with the removal done before the ownership check.
deleteEntryRemoveFirst(caller, id, ents) ==
  IF ~hasPermission(caller, "user")
  THEN [reply |-> Trap("Unauthorized: Only users can delete entries"),
        entries |-> ents]
  ELSE IF id \notin DOMAIN ents
  THEN [reply |-> Err("notFound", "",
                      "Entry not found. Cannot delete non-existent entry."),
        entries |-> ents]
  ELSE IF ents[id].owner # caller /\ ~isAdmin(caller)
  THEN [reply |-> Err("unauthorized", "",
                      "Unauthorized: You can only delete your own entries."),
        entries |-> Remove(ents, id)]
  ELSE [reply |-> Ok, entries |-> Remove(ents, id)]

deleteEntry(caller, id, ents) ==
  IF ~hasPermission(caller, "user")
  THEN [reply |-> Trap("Unauthorized: Only users can delete entries"),
        entries |-> ents]
  ELSE IF id \notin DOMAIN ents
  THEN [reply |-> Err("notFound", "",
                      "Entry not found. Cannot delete non-existent entry."),
        entries |-> ents]
  ELSE IF ents[id].owner # caller /\ ~isAdmin(caller)
  THEN [reply |-> Err("unauthorized", "",
                      "Unauthorized: You can only delete your own entries."),
        entries |-> ents]
  ELSE [reply |-> Ok, entries |-> Remove(ents, id)]

\* ------------------------------------------------------------ the importer

NULL == "null"

\* The characters String.prototype.trim strips, of those the inputs hold.
WhiteSpace == {" ", "\t", "\r", "\n"}

JsTrim(s) == TrimRight(TrimLeft(s, WhiteSpace), WhiteSpace)

UpperCase == <<"A","B","C","D","E","F","G","H","I","J","K","L","M","N","O","P","Q","R","S","T","U","V","W","X","Y","Z">>

LowerCase == <<"a","b","c","d","e","f","g","h","i","j","k","l","m","n","o","p","q","r","s","t","u","v","w","x","y","z">>

toLowerCaseChar(c) ==
  IF \E i \in 1..Len(UpperCase) : UpperCase[i] = c
  THEN LowerCase[CHOOSE i \in 1..Len(UpperCase) : UpperCase[i] = c]
  ELSE c

toLowerCase(s) == [i \in 1..Len(s) |-> toLowerCaseChar(s[i])]

\* COLUMN_MAPPINGS: the object literal's own properties, key and value.
COLUMN_MAPPINGS == <<
  <<<<"m","a","n","u","a","l"," ","d","a","t","e">>, "manualDate">>,
  <<<<"m","a","n","u","a","l","d","a","t","e">>, "manualDate">>,
  <<<<"d","a","t","e">>, "manualDate">>,
  <<<<"c","u","s","t","o","m","e","r"," ","n","a","m","e">>, "customerName">>,
  <<<<"c","u","s","t","o","m","e","r","n","a","m","e">>, "customerName">>,
  <<<<"n","a","m","e">>, "customerName">>,
  <<<<"m","o","b","i","l","e"," ","n","u","m","b","e","r">>, "mobileNumber">>,
  <<<<"m","o","b","i","l","e","n","u","m","b","e","r">>, "mobileNumber">>,
  <<<<"m","o","b","i","l","e">>, "mobileNumber">>,
  <<<<"p","h","o","n","e">>, "mobileNumber">>,
  <<<<"a","m","o","u","n","t"," ","(","r","s",".",")">>, "amountRs">>,
  <<<<"a","m","o","u","n","t">>, "amountRs">>,
  <<<<"a","m","o","u","n","t","r","s">>, "amountRs">>,
  <<<<"a","m","o","u","n","t"," ","r","s">>, "amountRs">> >>

\* COLUMN_MAPPINGS is a plain object, so a property read that finds no own
\* property goes on to Object.prototype. These are its property names; each
\* holds a function or an object, which is truthy.
ObjectPrototypeKeys == {
  <<"c","o","n","s","t","r","u","c","t","o","r">>, <<"_","_","p","r","o","t","o","_","_">>, <<"h","a","s","O","w","n","P","r","o","p","e","r","t","y">>, <<"i","s","P","r","o","t","o","t","y","p","e","O","f">>,
  <<"p","r","o","p","e","r","t","y","I","s","E","n","u","m","e","r","a","b","l","e">>, <<"t","o","L","o","c","a","l","e","S","t","r","i","n","g">>, <<"t","o","S","t","r","i","n","g">>, <<"v","a","l","u","e","O","f">>,
  <<"_","_","d","e","f","i","n","e","G","e","t","t","e","r","_","_">>, <<"_","_","d","e","f","i","n","e","S","e","t","t","e","r","_","_">>, <<"_","_","l","o","o","k","u","p","G","e","t","t","e","r","_","_">>,
  <<"_","_","l","o","o","k","u","p","S","e","t","t","e","r","_","_">> }

\* The value of COLUMN_MAPPINGS[key]: an own property's field name, or
\* "inherited" for a value found on Object.prototype, or NULL for undefined.
propertyRead(key) ==
  IF \E i \in 1..Len(COLUMN_MAPPINGS) : COLUMN_MAPPINGS[i][1] = key
  THEN COLUMN_MAPPINGS[CHOOSE i \in 1..Len(COLUMN_MAPPINGS) :
                         COLUMN_MAPPINGS[i][1] = key][2]
  ELSE IF key \in ObjectPrototypeKeys THEN "inherited"
  ELSE NULL

\* normalizeColumnName: COLUMN_MAPPINGS[normalized] || null. Every value the
\* read can find is truthy, so only undefined becomes null.
normalizeColumnName(header) == propertyRead(JsTrim(toLowerCase(header)))

\* parseCSVLine reads the line left to right with the flag inQuotes. A run of
\* quotes flips the flag exactly when its length is odd: outside quotes the
\* first one opens and the rest are read inside; inside, they are taken two
\* at a time as '""' and an odd last one closes. So the flag, wherever the
\* loop reads it, is the parity of the quotes to the left.
quotesBefore(line, i) == Cardinality({j \in 1..(i - 1) : line[j] = "\""})

inQuotes(line, i) == quotesBefore(line, i) % 2 = 1

\* The commas read with inQuotes false: each ends a cell.
cellEnds(line) ==
  {i \in 1..Len(line) : line[i] = "," /\ ~inQuotes(line, i)}

\* The positions whose character the loop adds to current: a quote only as
\* the first of a '""' read inside quotes, any other character always.
addsToCurrent(line, i) ==
  IF line[i] = "\""
  THEN inQuotes(line, i) /\ i + 1 <= Len(line) /\ line[i + 1] = "\""
  ELSE i \notin cellEnds(line)

\* The k-th smallest member of a set of positions.
nth(P, k) == CHOOSE i \in P : Cardinality({j \in P : j <= i}) = k

\* current at the push that ends the cell spanning lo..hi.
current(line, lo, hi) ==
  LET P == {i \in lo..hi : addsToCurrent(line, i)}
  IN [k \in 1..Cardinality(P) |-> line[nth(P, k)]]

parseCSVLine(line) ==
  LET ends == cellEnds(line)
      endOf(k) == IF k = 0 THEN 0
                  ELSE IF k > Cardinality(ends) THEN Len(line) + 1
                  ELSE nth(ends, k)
  IN [k \in 1..(Cardinality(ends) + 1) |->
        JsTrim(current(line, endOf(k - 1) + 1, endOf(k) - 1))]

\* ValidationResult; error is "" where the code leaves it undefined.
Valid == [isValid |-> TRUE, error |-> ""]

Invalid(msg) == [isValid |-> FALSE, error |-> msg]

validateRequired(value, fieldName) ==
  IF value = <<>> \/ JsTrim(value) = <<>>
  THEN Invalid(fieldName \o " is required")
  ELSE Valid

Digits == <<"0","1","2","3","4","5","6","7","8","9">>

isDigit(c) == \E i \in 1..Len(Digits) : Digits[i] = c

digitValue(c) == (CHOOSE i \in 1..Len(Digits) : Digits[i] = c) - 1

validateMobileNumber(value) ==
  IF value = <<>> \/ JsTrim(value) = <<>>
  THEN Invalid("Mobile Number is required")
  ELSE IF ~(\A i \in 1..Len(value) : isDigit(value[i]))
  THEN Invalid("Mobile Number must contain only digits")
  ELSE IF Len(value) < 10 \/ Len(value) > 15
  THEN Invalid("Mobile Number must be between 10 and 15 digits")
  ELSE Valid

\* The number of digits s holds from position i on.
digitRun(s, i) ==
  Cardinality({j \in i..Len(s) : \A k \in i..j : isDigit(s[k])})

RECURSIVE digitsToNat(_)
digitsToNat(ds) ==
  IF ds = <<>> THEN 0
  ELSE 10 * digitsToNat(SubSeq(ds, 1, Len(ds) - 1)) + digitValue(ds[Len(ds)])

\* parseFloat, for text without an exponent part and without "Infinity":
\* leading white space, a sign, digits, a point, digits; the rest is ignored.
\* The value is (neg ? -1 : 1) * (int + a fraction that is zero or not).
parseFloat(value) ==
  LET s == TrimLeft(value, WhiteSpace)
      signed == s # <<>> /\ Head(s) \in {"-", "+"}
      body == IF signed THEN Tail(s) ELSE s
      nInt == digitRun(body, 1)
      hasPoint == nInt + 1 <= Len(body) /\ body[nInt + 1] = "."
      nFrac == IF hasPoint THEN digitRun(body, nInt + 2) ELSE 0
      frac == SubSeq(body, nInt + 2, nInt + 1 + nFrac)
  IN [isNaN |-> nInt + nFrac = 0,
      neg |-> signed /\ Head(s) = "-",
      int |-> digitsToNat(SubSeq(body, 1, nInt)),
      fracNonZero |-> \E i \in 1..Len(frac) : frac[i] # "0"]

validateAmount(value) ==
  IF value = <<>> \/ JsTrim(value) = <<>>
  THEN Invalid("Amount is required")
  ELSE IF parseFloat(value).isNaN
  THEN Invalid("Amount must be a valid number")
  ELSE IF parseFloat(value).neg
          \/ (parseFloat(value).int = 0 /\ ~parseFloat(value).fracNonZero)
  THEN Invalid("Amount must be greater than 0")
  ELSE Valid

RowPrefix(rowIndex) == "Row " \o ToString(rowIndex) \o ": "

\* validateRow with the mobile format checked before the required fields.
validateRowMobileFirst(row, rowIndex) ==
  IF validateMobileNumber(row.mobileNumber).error # ""
  THEN RowPrefix(rowIndex) \o validateMobileNumber(row.mobileNumber).error
  ELSE IF validateRequired(row.manualDate, "Manual Date").error # ""
  THEN RowPrefix(rowIndex) \o validateRequired(row.manualDate, "Manual Date").error
  ELSE IF validateRequired(row.customerName, "Customer Name").error # ""
  THEN RowPrefix(rowIndex)
         \o validateRequired(row.customerName, "Customer Name").error
  ELSE IF validateAmount(row.amountRs).error # ""
  THEN RowPrefix(rowIndex) \o validateAmount(row.amountRs).error
  ELSE ""

\* validateRow: "" where the code returns null.
validateRow(row, rowIndex) ==
  IF validateRequired(row.manualDate, "Manual Date").error # ""
  THEN RowPrefix(rowIndex) \o validateRequired(row.manualDate, "Manual Date").error
  ELSE IF validateRequired(row.customerName, "Customer Name").error # ""
  THEN RowPrefix(rowIndex)
         \o validateRequired(row.customerName, "Customer Name").error
  ELSE IF validateMobileNumber(row.mobileNumber).error # ""
  THEN RowPrefix(rowIndex) \o validateMobileNumber(row.mobileNumber).error
  ELSE IF validateAmount(row.amountRs).error # ""
  THEN RowPrefix(rowIndex) \o validateAmount(row.amountRs).error
  ELSE ""

\* The position of the first line feed of text at or after i; 0 if none.
nextLineFeed(text, i) ==
  LET feeds == {p \in i..Len(text) : text[p] = "\n"}
  IN IF feeds = {} THEN 0 ELSE CHOOSE p \in feeds : \A q \in feeds : p <= q

\* text.split(/\r?\n/), from position i on: a piece ends before a line feed,
\* and before the carriage return in front of it if there is one.
RECURSIVE splitFrom(_, _)
splitFrom(text, i) ==
  LET p == nextLineFeed(text, i)
  IN IF p = 0 THEN <<SubSeq(text, i, Len(text))>>
     ELSE IF p > i /\ text[p - 1] = "\r"
     THEN <<SubSeq(text, i, p - 2)>> \o splitFrom(text, p + 1)
     ELSE <<SubSeq(text, i, p - 1)>> \o splitFrom(text, p + 1)

splitLines(text) == splitFrom(text, 1)

isNonBlank(line) == JsTrim(line) # <<>>

\* text.split(/\r?\n/).filter(line => line.trim())
nonBlankLines(text) == SelectSeq(splitLines(text), isNonBlank)

Min(a, b) == IF a <= b THEN a ELSE b

\* The inner loop over the cells of one line: parsedRow and hasAnyField.
RECURSIVE assignFields(_, _, _, _, _)
assignFields(values, fieldMapping, j, parsedRow, hasAnyField) ==
  IF j > Min(Len(values), Len(fieldMapping))
  THEN [parsedRow |-> parsedRow, hasAnyField |-> hasAnyField]
  ELSE IF fieldMapping[j] # NULL
  THEN assignFields(values, fieldMapping, j + 1,
                    Put(parsedRow, fieldMapping[j], JsTrim(values[j])), TRUE)
  ELSE assignFields(values, fieldMapping, j + 1, parsedRow, hasAnyField)

\* parsedRow.f || ''
fieldOrEmpty(parsedRow, f) ==
  IF f \in DOMAIN parsedRow THEN parsedRow[f] ELSE <<>>

completeRow(parsedRow) ==
  [manualDate |-> fieldOrEmpty(parsedRow, "manualDate"),
   customerName |-> fieldOrEmpty(parsedRow, "customerName"),
   mobileNumber |-> fieldOrEmpty(parsedRow, "mobileNumber"),
   amountRs |-> fieldOrEmpty(parsedRow, "amountRs")]

\* pushRow without the `continue` after errors.push: a row that fails
\* validation is recorded as an error and pushed to validRows as well.
pushRowNoContinue(line, fieldMapping, rowNumber, rows, errors) ==
  LET a == assignFields(parseCSVLine(line), fieldMapping, 1, <<>>, FALSE)
      row == completeRow(a.parsedRow)
      validationError == validateRow(row, rowNumber)
  IN IF ~a.hasAnyField THEN [validRows |-> rows, errors |-> errors]
     ELSE IF validationError # ""
     THEN [validRows |-> Append(rows, row),
           errors |-> Append(errors, [row |-> rowNumber,
                                      message |-> validationError])]
     ELSE [validRows |-> Append(rows, row), errors |-> errors]

\* One data line: what it adds to validRows and to errors.
pushRow(line, fieldMapping, rowNumber, rows, errors) ==
  LET a == assignFields(parseCSVLine(line), fieldMapping, 1, <<>>, FALSE)
      row == completeRow(a.parsedRow)
      validationError == validateRow(row, rowNumber)
  IN IF ~a.hasAnyField THEN [validRows |-> rows, errors |-> errors]
     ELSE IF validationError # ""
     THEN [validRows |-> rows,
           errors |-> Append(errors, [row |-> rowNumber,
                                      message |-> validationError])]
     ELSE [validRows |-> Append(rows, row), errors |-> errors]

\* The loop over lines[1..] (k is the 1-based index of the line in lines, so
\* the code's i is k - 1 and its rowNumber, i + 1, is k).
RECURSIVE rowLoop(_, _, _, _, _)
rowLoop(lines, fieldMapping, k, rows, errors) ==
  IF k > Len(lines) THEN [validRows |-> rows, errors |-> errors]
  ELSE IF JsTrim(lines[k]) = <<>>
  THEN rowLoop(lines, fieldMapping, k + 1, rows, errors)
  ELSE LET r == pushRow(JsTrim(lines[k]), fieldMapping, k, rows, errors)
       IN rowLoop(lines, fieldMapping, k + 1, r.validRows, r.errors)

RECURSIVE mapHeaders(_)
mapHeaders(headers) ==
  IF headers = <<>> THEN <<>>
  ELSE <<normalizeColumnName(Head(headers))>> \o mapHeaders(Tail(headers))

Rejected(msg) ==
  [status |-> "rejected", message |-> msg, validRows |-> <<>>,
   errors |-> <<>>]

Resolved(rows, errors) ==
  [status |-> "resolved", message |-> "", validRows |-> rows,
   errors |-> errors]

\* reader.onload of parseXLSXFile: how the promise settles for a file text.
parseXLSXFile(text) ==
  IF text = <<>> THEN Rejected("Failed to read file")
  ELSE IF nonBlankLines(text) = <<>> THEN Rejected("File is empty")
  ELSE LET lines == nonBlankLines(text)
           fieldMapping == mapHeaders(parseCSVLine(lines[1]))
           r == rowLoop(lines, fieldMapping, 2, <<>>, <<>>)
       IN IF ~(\E j \in 1..Len(fieldMapping) : fieldMapping[j] # NULL)
          THEN Rejected("No recognized columns found in the file")
          ELSE IF Len(r.validRows) = 0 /\ Len(r.errors) = 0
          THEN Rejected("No data rows found in the file")
          ELSE Resolved(r.validRows, r.errors)

\* The ids and inputs the store is called with.
StoreIds == {"e1", "e2"}

StoreCallers == {"alice", "bob", "root", "anon"}

EntryInput(id, d, n, m, a) ==
  [id |-> id, manualDate |-> d, customerName |-> n, mobileNumber |-> m,
   amountRs |-> a]

StoreInputs ==
  { EntryInput(id, <<"a">>, <<"a">>, <<"a">>, 1) : id \in StoreIds } \cup
  { EntryInput(id, <<"b">>, <<"b">>, <<"b">>, 2) : id \in StoreIds } \cup
  { EntryInput(id, <<>>, <<"a">>, <<"a">>, 1) : id \in StoreIds } \cup
  { EntryInput(id, <<"a">>, <<" ">>, <<"a">>, 1) : id \in StoreIds } \cup
  { EntryInput(id, <<"a">>, <<"a">>, <<>>, 1) : id \in StoreIds } \cup
  { EntryInput(id, <<"a">>, <<"a">>, <<"a">>, 0) : id \in StoreIds }

StoreCreate(caller, input) ==
  /\ entries' = createEntry(caller, input, entries, now).entries
  /\ reply' = createEntry(caller, input, entries, now).reply
  /\ UNCHANGED <<now, identity, exported, evaluated>>
  /\ UNCHANGED importVars
  /\ UNCHANGED uiVars

StoreUpdate(caller, id, input) ==
  /\ entries' = updateEntry(caller, id, input, entries).entries
  /\ reply' = updateEntry(caller, id, input, entries).reply
  /\ UNCHANGED <<now, identity, exported, evaluated>>
  /\ UNCHANGED importVars
  /\ UNCHANGED uiVars

StoreDelete(caller, id) ==
  /\ entries' = deleteEntry(caller, id, entries).entries
  /\ reply' = deleteEntry(caller, id, entries).reply
  /\ UNCHANGED <<now, identity, exported, evaluated>>
  /\ UNCHANGED importVars
  /\ UNCHANGED uiVars

\* Time.now() does not go back.
Tick ==
  /\ now < MaxTime
  /\ now' = now + 1
  /\ UNCHANGED <<entries, reply, identity, exported, evaluated>>
  /\ UNCHANGED importVars
  /\ UNCHANGED uiVars

\* ------------------------------------------------- the client's import

Pending ==
  [status |-> "pending", message |-> "", validRows |-> <<>>, errors |-> <<>>]

isAuthenticated == identity # "anon"

endsWith(s, ext) ==
  Len(s) >= Len(ext) /\ SubSeq(s, Len(s) - Len(ext) + 1, Len(s)) = ext

\* A test that looks for the extension anywhere in the name.
hasValidExtensionAnywhere(name) ==
  \E ext \in {<<".","x","l","s","x">>, <<".","c","s","v">>} :
    \E i \in 1..(Len(name) - Len(ext) + 1) :
      SubSeq(toLowerCase(name), i, i + Len(ext) - 1) = ext

hasValidExtension(name) ==
  \E ext \in {<<".","x","l","s","x">>, <<".","c","s","v">>} : endsWith(toLowerCase(name), ext)

getCreateEntryAuthMessage ==
  "Please sign in with Internet Identity to save entries."

Toast(level, msg) == [level |-> level, message |-> msg]

\* The names a selected file can have.
FileNames == {<<"a",".","c","s","v">>, <<"A",".","X","L","S","X">>, <<"a",".","t","x","t">>, <<"c","s","v">>, <<"a",".","x","l","s","x",".","t","x","t">>}

\* The header lines and the data lines an import file is made of.
HeaderPool == {
  <<"D","a","t","e",",","N","a","m","e",",","M","o","b","i","l","e",",","A","m","o","u","n","t">>,
  <<" ","N","A","M","E"," ",",","f","o","o",",","\"","A","m","o","u","n","t"," ","(","R","s",".",")","\"">>,
  <<"c","o","n","s","t","r","u","c","t","o","r">>,
  <<"f","o","o">> }

BlankLine == <<"\r">>

DataPool == {
  <<"2","0","2","4","-","0","1","-","0","1",",","J","a","n","e",",","1","2","3","4","5","6","7","8","9","0",",","5","0","0">>,
  <<",","J","a","n","e",",","1","2","3",",","5","0","0">>,
  <<"2","0","2","4","-","0","1","-","0","2",",","\"","D","o","e",","," ","J","\"",",","1","9","8","7","6","5","4","3","2","1",",","0",".","5","\r">>,
  <<"2","0","2","4","-","0","1","-","0","1",",",",","1","2",",","0">>,
  <<"2","0","2","4","-","0","1","-","0","1",",","J","a","n","e",",","1","2","a",",","-","1">>,
  <<"2","0","2","4","-","0","1","-","0","1",",","J","a","n","e",",","1","2","3",",","a","b","c">>,
  <<"2","0","2","4","-","0","1","-","0","1",",","J","a","n","e",",","1","2","3","4","5","6","7","8","9","0",",","a","b","c">>,
  <<"f","o","o">>,
  <<"1","/","2","/","2","4",",","A","l",",","1","2","3","4","5","6","7","8","9","0",",","5">>,
  BlankLine }

RECURSIVE joinLines(_)
joinLines(ls) ==
  IF ls = <<>> THEN <<>>
  ELSE IF Len(ls) = 1 THEN ls[1]
  ELSE ls[1] \o <<"\n">> \o joinLines(Tail(ls))

\* The file texts: the empty file, and the files made of a header line and
\* up to MaxRows lines of the data pool, joined by line feeds.
FileTexts ==
  {<<>>} \cup
  { joinLines(<<h>> \o rows) :
      h \in HeaderPool,
      rows \in UNION { [1..n -> DataPool] : n \in 0..MaxRows } }

\* The button that ignores a running import.
importDisabledWhenSignedOut == ~isAuthenticated

\* The disabled attribute of the import button.
importDisabled == ~isAuthenticated \/ isImporting

\* handleImportClick, which the import button runs unless it is disabled.
\* The button takes no click while the file dialog is open, and one import is
\* followed to its end.
handleImportClick ==
  /\ pc \notin {"picker", "done"}
  /\ ~importDisabled
  /\ IF ~isAuthenticated
     THEN /\ toasts' = Append(toasts, Toast("error", getCreateEntryAuthMessage))
          /\ pc' = pc
     ELSE /\ pc' = "picker"
          /\ toasts' = toasts
  /\ UNCHANGED <<isImporting, fileText, fileName, parsePromise, validRows, parseErrors,
                 rowIdx, successCount, failCount, inflight, idSeed, issued,
                 settled, invalidateLog>>
  /\ UNCHANGED <<entries, now, reply, identity,
                 exported, evaluated, raised, query>>

\* handleFileChange up to its first await, for a change event with no file.
handleFileChangeNoFile ==
  /\ pc = "picker"
  /\ pc' = "done"
  /\ UNCHANGED <<isImporting, fileText, fileName, parsePromise, validRows, parseErrors,
                 rowIdx, successCount, failCount, inflight, idSeed, issued,
                 settled, invalidateLog, toasts>>
  /\ UNCHANGED <<entries, now, reply, identity,
                 exported, evaluated, raised, query>>

\* handleFileChange up to its first await, for a file with a name and a text.
handleFileChange(name, text) ==
  /\ pc = "picker"
  /\ fileName' = name
  /\ IF ~isAuthenticated
     THEN /\ toasts' = Append(toasts, Toast("error", getCreateEntryAuthMessage))
          /\ pc' = "done"
          /\ UNCHANGED <<isImporting, fileText>>
     ELSE IF ~hasValidExtension(name)
     THEN /\ toasts' = Append(toasts,
                 Toast("error", "Please select a valid XLSX or CSV file"))
          /\ pc' = "done"
          /\ UNCHANGED <<isImporting, fileText>>
     ELSE /\ isImporting' = TRUE
          /\ fileText' = text
          /\ pc' = "parsing"
          /\ toasts' = toasts
  /\ UNCHANGED <<parsePromise, validRows, parseErrors, rowIdx, successCount,
                 failCount, inflight, idSeed, issued, settled, invalidateLog>>
  /\ UNCHANGED <<entries, now, reply, identity,
                 exported, evaluated, raised, query>>

\* handleAuth of AuthStatusBar for a signed-in user: clear() drops the
\* identity.  It is taken before a file is handed to handleFileChange.
handleAuth ==
  /\ pc \in {"idle", "picker"}
  /\ isAuthenticated
  /\ identity' = "anon"
  /\ UNCHANGED importVars
  /\ UNCHANGED <<entries, now, reply, exported, evaluated, raised, query>>

\* The change event of the file input, once the picker is open: the user
\* chose a file.
fileInputOnChange ==
  /\ pc = "picker"
  /\ \E name \in FileNames, text \in FileTexts : handleFileChange(name, text)

\* reader.onload: the promise of parseXLSXFile settles.
readerOnLoad ==
  /\ pc = "parsing"
  /\ parsePromise' = parseXLSXFile(fileText)
  /\ pc' = "parsed"
  /\ UNCHANGED <<isImporting, fileText, fileName, validRows, parseErrors, rowIdx,
                 successCount, failCount, inflight, idSeed, issued, settled,
                 invalidateLog, toasts>>
  /\ UNCHANGED <<entries, now, reply, identity,
                 exported, evaluated, raised, query>>

\* reader.onerror: the file could not be read.
readerOnError ==
  /\ pc = "parsing"
  /\ parsePromise' = Rejected("Failed to read file")
  /\ pc' = "readFailed"
  /\ UNCHANGED <<isImporting, fileText, fileName, validRows, parseErrors, rowIdx,
                 successCount, failCount, inflight, idSeed, issued, settled,
                 invalidateLog, toasts>>
  /\ UNCHANGED <<entries, now, reply, identity,
                 exported, evaluated, raised, query>>

\* handleFileChange from `await parseXLSXFile(file)` to the loop's first row,
\* or to its return when the parse was rejected or gave no valid row.
afterParse ==
  /\ pc \in {"parsed", "readFailed"}
  /\ IF parsePromise.status = "rejected"
     THEN /\ toasts' = Append(toasts, Toast("error", parsePromise.message))
          /\ isImporting' = FALSE
          /\ pc' = "done"
          /\ UNCHANGED <<validRows, parseErrors, rowIdx>>
     ELSE IF Len(parsePromise.validRows) = 0
     THEN /\ toasts' = Append(toasts,
                 IF Len(parsePromise.errors) > 0
                 THEN Toast("error", "No valid rows found in the file. Please check the file format and data.")
                 ELSE Toast("error", "The file is empty or contains no data rows."))
          /\ isImporting' = FALSE
          /\ pc' = "done"
          /\ validRows' = parsePromise.validRows
          /\ parseErrors' = parsePromise.errors
          /\ UNCHANGED rowIdx
     ELSE /\ validRows' = parsePromise.validRows
          /\ parseErrors' = parsePromise.errors
          /\ rowIdx' = 1
          /\ pc' = "loop"
          /\ UNCHANGED <<toasts, isImporting>>
  /\ UNCHANGED <<fileText, fileName, parsePromise, successCount, failCount, inflight,
                 idSeed, issued, settled, invalidateLog>>
  /\ UNCHANGED <<entries, now, reply, identity,
                 exported, evaluated, raised, query>>

\* BigInt(Math.floor(parseFloat(amountRs))), sent as a Nat: it throws for NaN
\* (BigInt) and for a negative value (the Nat encoder).
toNat(amountRs) ==
  IF parseFloat(amountRs).isNaN
     \/ (parseFloat(amountRs).neg
         /\ (parseFloat(amountRs).int > 0 \/ parseFloat(amountRs).fracNonZero))
  THEN [throws |-> TRUE, value |-> 0]
  ELSE [throws |-> FALSE, value |-> parseFloat(amountRs).int]

\* `${Date.now()}-${Math.random()...}`: the n-th id the client generates,
\* taken to differ from every id generated before.
generateId(n) == "c" \o ToString(n)

\* The create call of row k started without `await`: the loop goes on to the
\* next row at once.
awaitCreateNoAwait(k) == [pc |-> "loop", rowIdx |-> k + 1]

\* `await createEntryMutation.mutateAsync(row)`: where handleFileChange stands
\* once the call for row k is started.
awaitCreate(k) == [pc |-> "awaiting", rowIdx |-> k]

\* A catch that gives up the rest of the import after the first failure.
catchRowAbort(k, fails) ==
  [failCount |-> fails + 1, rowIdx |-> Len(validRows) + 1]

\* The catch of the loop body: the counters and the row the loop goes on with.
catchRow(k, fails) == [failCount |-> fails + 1, rowIdx |-> k + 1]

\* One iteration of the import loop up to its await: mutationFn of
\* useCreateEntry runs for the row and either throws before the call (no
\* actor, amount not convertible) or sends createEntry to the store.
mutateStart(actorReady) ==
  /\ pc = "loop"
  /\ rowIdx <= Len(validRows)
  /\ issued' = Append(issued, rowIdx)
  /\ IF ~actorReady \/ toNat(validRows[rowIdx].amountRs).throws
     THEN /\ failCount' = catchRow(rowIdx, failCount).failCount
          /\ rowIdx' = catchRow(rowIdx, failCount).rowIdx
          /\ settled' = Append(settled, [row |-> rowIdx, id |-> "", ok |-> FALSE])
          /\ UNCHANGED <<pc, inflight, idSeed>>
     ELSE /\ idSeed' = idSeed + 1
          /\ inflight' = inflight \cup
               {[row |-> rowIdx,
                 input |-> EntryInput(generateId(idSeed + 1),
                                      validRows[rowIdx].manualDate,
                                      validRows[rowIdx].customerName,
                                      validRows[rowIdx].mobileNumber,
                                      toNat(validRows[rowIdx].amountRs).value)]}
          /\ pc' = awaitCreate(rowIdx).pc
          /\ rowIdx' = awaitCreate(rowIdx).rowIdx
          /\ UNCHANGED <<failCount, settled>>
  /\ UNCHANGED <<isImporting, fileText, fileName, parsePromise, validRows, parseErrors,
                 successCount, invalidateLog, toasts>>
  /\ UNCHANGED <<entries, now, reply, identity,
                 exported, evaluated, raised, query>>

\* The call never reaches the store or its answer never arrives: the promise
\* of mutateAsync rejects and the loop's catch counts the row as failed.
createRejected(call) ==
  /\ call \in inflight
  /\ inflight' = inflight \ {call}
  /\ settled' = Append(settled, [row |-> call.row, id |-> call.input.id,
                                 ok |-> FALSE])
  /\ IF pc = "awaiting" /\ rowIdx = call.row
     THEN /\ failCount' = catchRow(rowIdx, failCount).failCount
          /\ rowIdx' = catchRow(rowIdx, failCount).rowIdx
          /\ pc' = "loop"
     ELSE UNCHANGED <<failCount, rowIdx, pc>>
  /\ UNCHANGED <<isImporting, fileText, fileName, parsePromise, validRows, parseErrors,
                 successCount, idSeed, issued, invalidateLog, toasts>>
  /\ UNCHANGED <<entries, now, reply, identity,
                 exported, evaluated, raised, query>>

\* The entries query once invalidateQueries has been called on it, or once it
\* is mounted: a fetch is under way and nothing has failed yet.
invalidateQueries ==
  [status |-> "fetching", failureCount |-> 0, attempts |-> 0,
   failures |-> <<>>]

\* The store runs createEntry for the call and answers. A null answer resolves
\* mutateAsync after onSuccess has invalidated the entries query; an error
\* answer or a trap rejects it.
createAnswered(call) ==
  /\ call \in inflight
  /\ inflight' = inflight \ {call}
  /\ entries' = createEntry(identity, call.input, entries, now).entries
  /\ reply' = createEntry(identity, call.input, entries, now).reply
  /\ settled' = Append(settled, [row |-> call.row, id |-> call.input.id,
                                 ok |-> reply'.kind = "ok"])
  /\ invalidateLog' = IF reply'.kind = "ok"
                      THEN Append(invalidateLog, Len(settled'))
                      ELSE invalidateLog
  /\ IF pc = "awaiting" /\ rowIdx = call.row
     THEN /\ pc' = "loop"
          /\ IF reply'.kind = "ok"
             THEN /\ successCount' = successCount + 1
                  /\ rowIdx' = rowIdx + 1
                  /\ UNCHANGED failCount
             ELSE /\ failCount' = catchRow(rowIdx, failCount).failCount
                  /\ rowIdx' = catchRow(rowIdx, failCount).rowIdx
                  /\ UNCHANGED successCount
     ELSE UNCHANGED <<successCount, failCount, rowIdx, pc>>
  /\ UNCHANGED <<isImporting, fileText, fileName, parsePromise, validRows, parseErrors,
                 idSeed, issued, toasts>>
  /\ query' = IF reply'.kind = "ok" THEN invalidateQueries ELSE query
  /\ UNCHANGED <<now, identity, exported, evaluated, raised>>

plural(n, one, many) == IF n = 1 THEN one ELSE many

summaryToast(ok, failed, nErrors) ==
  IF ok > 0 /\ failed = 0
  THEN Toast("success", "Successfully imported " \o ToString(ok) \o " "
                          \o plural(ok, "entry", "entries") \o "!")
  ELSE IF ok > 0 /\ failed > 0
  THEN Toast("warning", "Imported " \o ToString(ok) \o " "
                          \o plural(ok, "entry", "entries") \o ". "
                          \o ToString(failed) \o " "
                          \o plural(failed, "row", "rows") \o " failed.")
  ELSE Toast("error", "Failed to import entries. "
                        \o (IF nErrors > 0 THEN "Please check the file format."
                            ELSE ""))

\* handleFileChange after the loop: refresh the list, show the summary, and
\* clear isImporting in the finally block.
importFinish ==
  /\ pc = "loop"
  /\ rowIdx > Len(validRows)
  /\ invalidateLog' = Append(invalidateLog, Len(settled))
  /\ toasts' = Append(toasts,
                      summaryToast(successCount, failCount, Len(parseErrors)))
  /\ isImporting' = FALSE
  /\ pc' = "done"
  /\ UNCHANGED <<fileText, fileName, parsePromise, validRows, parseErrors, rowIdx,
                 successCount, failCount, inflight, idSeed, issued, settled>>
  /\ query' = invalidateQueries
  /\ UNCHANGED <<entries, now, reply, identity, exported, evaluated, raised>>

\* ----------------------------------- the client's mutations and its query

charAt(s, i) == SubSeq(s, i, i)

\* text.toLowerCase().includes(needle), for a needle written in lower case.
includesLowerCased(text, needle) ==
  \E i \in 1..(Len(text) - Len(needle) + 1) :
    \A j \in 1..Len(needle) :
      toLowerCaseChar(charAt(text, i + j - 1)) = charAt(needle, j)

\* A test that looks for 'unauthorized' in the message as it is written.
isAuthorizationErrorCaseSensitive(errorMessage) ==
  \E i \in 1..(Len(errorMessage) - 11) :
    SubSeq(errorMessage, i, i + 11) = "unauthorized"

\* isAuthorizationError, of an Error with the message errorMessage.
isAuthorizationError(errorMessage) ==
  includesLowerCased(errorMessage, "unauthorized")

getViewEntriesAuthMessage ==
  "Please sign in with Internet Identity to view entries."

getUpdateEntryAuthMessage ==
  "Please sign in with Internet Identity to update entries."

getDeleteEntryAuthMessage ==
  "Please sign in with Internet Identity to delete entries."

\* How a call to the actor can fail on its way: not at all, or with one of
\* these error texts.
NoFailure == "none"

TransportFailures ==
  {"Failed to fetch", "Server returned an error: 401 UNAUTHORIZED"}

\* The message of the error the agent throws when the canister traps.
rejectText(trapMessage) == "Call was rejected: " \o trapMessage

\* What the actor call gives the mutation: the store's reply, or a failure on
\* the way, which leaves the store as it is.
Answer(transport, call) ==
  IF transport # NoFailure
  THEN [reply |-> [kind |-> "transport", field |-> "", message |-> transport],
        entries |-> entries]
  ELSE call

\* The message of the error an actor call throws, "" if it returns.
thrownByCall(result) ==
  IF result.kind = "trap" THEN rejectText(result.message)
  ELSE IF result.kind = "transport" THEN result.message
  ELSE ""

\* What a mutation leaves: the actor calls it made, the kind and the message
\* of the store's answer, the message of the error thrown inside its try
\* block ("" if none), and the message of the error it raises ("" if it
\* resolves).
Outcome(op, calls, result, failure, message) ==
  [op |-> op, calls |-> calls, answer |-> result.kind,
   storeMessage |-> IF result.kind \in {"emptyField", "invalidAmount",
                                       "notFound", "unauthorized"}
                    THEN result.message ELSE "",
   failure |-> failure, message |-> message]

NotCalled == [kind |-> "none", field |-> "", message |-> ""]

\* The catch block of a mutation: an authorization error becomes the sign-in
\* prompt, any other error is thrown again.
catchAuthorization(failure, prompt) ==
  IF isAuthorizationError(failure) THEN prompt ELSE failure

\* mutationFn of useCreateEntry from the answer of actor.createEntry on.
createEntryMutation(result) ==
  LET failure ==
        IF result.kind \in {"trap", "transport"} THEN thrownByCall(result)
        ELSE IF result.kind = "ok" THEN ""
        ELSE IF result.kind \in {"emptyField", "invalidAmount"}
        THEN result.message
        ELSE "Failed to save entry. Please try again."
  IN Outcome("create", 1, result, failure,
             IF failure = "" THEN ""
             ELSE catchAuthorization(failure, getCreateEntryAuthMessage))

\* mutationFn of useUpdateEntry from the answer of actor.updateEntry on.
updateEntryMutation(result) ==
  LET failure ==
        IF result.kind \in {"trap", "transport"} THEN thrownByCall(result)
        ELSE IF result.kind = "ok" THEN ""
        ELSE IF result.kind \in {"emptyField", "invalidAmount", "notFound",
                                "unauthorized"}
        THEN result.message
        ELSE "Failed to update entry. Please try again."
  IN Outcome("update", 1, result, failure,
             IF failure = "" THEN ""
             ELSE catchAuthorization(failure, getUpdateEntryAuthMessage))

\* mutationFn of useDeleteEntry from the answer of actor.deleteEntry on.
deleteEntryMutation(result) ==
  LET failure ==
        IF result.kind \in {"trap", "transport"} THEN thrownByCall(result)
        ELSE IF result.kind = "ok" THEN ""
        ELSE IF result.kind \in {"notFound", "unauthorized"}
        THEN result.message
        ELSE "Failed to delete entry. Please try again."
  IN Outcome("delete", 1, result, failure,
             IF failure = "" THEN ""
             ELSE catchAuthorization(failure, getDeleteEntryAuthMessage))

\* A mutation that throws before its try block: nothing is called and the
\* error is raised as it is.
thrownBeforeCall(op, message) == Outcome(op, 0, NotCalled, "", message)

\* onSuccess of the three mutations: a mutation that resolved invalidates the
\* entries query.
onSuccess(outcome) ==
  IF outcome.message = "" THEN invalidateQueries ELSE query

\* listEntriesNewestFirst, as far as the caller's permission decides it.
listEntriesNewestFirst(caller) ==
  IF ~hasPermission(caller, "user")
  THEN Trap("Unauthorized: Only users can list entries")
  ELSE Ok

\* validateField for the four fields of the form: no field has an error.
validateForm(formData) ==
  /\ validateRequired(formData.manualDate, "Manual Date").isValid
  /\ validateRequired(formData.customerName, "Customer Name").isValid
  /\ validateMobileNumber(formData.mobileNumber).isValid
  /\ validateAmount(formData.amountRs).isValid

FormData(d, n, m, a) ==
  [manualDate |-> d, customerName |-> n, mobileNumber |-> m, amountRs |-> a]

\* What the user can have typed into the form when it is submitted.
FormInputs == {
  FormData(<<"2","0","2","4","-","0","1","-","0","1">>, <<"J","a","n","e">>, <<"1","2","3","4","5","6","7","8","9","0">>, <<"5","0","0">>),
  FormData(<<"2","0","2","4","-","0","1","-","0","1">>, <<"J","a","n","e">>, <<"1","2","3","4","5","6","7","8","9","0">>, <<"0",".","5">>),
  FormData(<<"2","0","2","4","-","0","1","-","0","1">>, <<"J","a","n","e">>, <<"1","2","3">>, <<"5","0","0">>),
  FormData(<<>>, <<"J","a","n","e">>, <<"1","2","3","4","5","6","7","8","9","0">>, <<"5","0","0">>) }

\* The ids an update or a delete can name: one the client generated, one
\* another client created, one nobody created.
MutationIds == {"c1", "e1", "zz"}

UpdateInput(id, f) ==
  [id |-> id, manualDate |-> f.manualDate, customerName |-> f.customerName,
   mobileNumber |-> f.mobileNumber, amountRs |-> f.amountRs]

\* The inputs of the update mutation: good fields for each id, and fields the
\* store or BigInt refuses for the client's own entry.
UpdateInputs ==
  { UpdateInput(id, FormData(<<"2","0","2","4","-","0","2","-","0","2">>, <<"J","o","e">>, <<"1","0","9","8","7","6","5","4","3","2">>, <<"7">>)) :
      id \in MutationIds } \cup
  { UpdateInput("c1", f) :
      f \in { FormData(<<"2","0","2","4","-","0","2","-","0","2">>, <<" ">>, <<"1","0","9","8","7","6","5","4","3","2">>, <<"7">>),
              FormData(<<"2","0","2","4","-","0","2","-","0","2">>, <<"J","o","e">>, <<"1","0","9","8","7","6","5","4","3","2">>, <<"0">>),
              FormData(<<"2","0","2","4","-","0","2","-","0","2">>, <<"J","o","e">>, <<"1","0","9","8","7","6","5","4","3","2">>, <<"a","b","c">>) } }

\* The message of the error BigInt throws for a value toNat cannot convert.
BigIntError == "The number NaN cannot be converted to a BigInt because it is not an integer"

\* handleSubmit with the form's content: the sign-in check, validateForm, the
\* create mutation with its call to the store, and the toast that ends it.
handleSubmit(formData, actorReady, transport) ==
  /\ Len(toasts) < MaxSubmits
  /\ isAuthenticated
  /\ IF ~validateForm(formData)
     THEN /\ toasts' = Append(toasts,
                 Toast("error", "Please fix the errors in the form"))
          /\ UNCHANGED <<entries, reply, idSeed, raised, query>>
     ELSE IF ~actorReady \/ toNat(formData.amountRs).throws
     THEN /\ raised' = thrownBeforeCall("create",
                 IF ~actorReady THEN "Actor not initialized"
                 ELSE BigIntError)
          /\ toasts' = Append(toasts, Toast("error", raised'.message))
          /\ UNCHANGED <<entries, reply, idSeed, query>>
     ELSE LET input == EntryInput(generateId(idSeed + 1), formData.manualDate,
                                  formData.customerName,
                                  formData.mobileNumber,
                                  toNat(formData.amountRs).value)
              a == Answer(transport,
                          createEntry(identity, input, entries, now))
          IN /\ idSeed' = idSeed + 1
             /\ entries' = a.entries
             /\ reply' = IF transport = NoFailure THEN a.reply ELSE reply
             /\ raised' = createEntryMutation(a.reply)
             /\ query' = onSuccess(raised')
             /\ toasts' = Append(toasts,
                    IF raised'.message = ""
                    THEN Toast("success", "Entry saved successfully!")
                    ELSE Toast("error", raised'.message))
  /\ UNCHANGED <<now, identity, exported, evaluated>>
  /\ UNCHANGED <<pc, isImporting, fileText, fileName, parsePromise, validRows,
                 parseErrors, rowIdx, successCount, failCount, inflight,
                 issued, settled, invalidateLog>>

\* mutateAsync of useUpdateEntry with its call to the store.
updateMutate(input, actorReady, transport) ==
  /\ isAuthenticated
  /\ IF ~actorReady
     THEN /\ raised' = thrownBeforeCall("update", "Actor not initialized")
          /\ UNCHANGED <<entries, reply, query>>
     ELSE IF toNat(input.amountRs).throws
     THEN /\ raised' = thrownBeforeCall("update", BigIntError)
          /\ UNCHANGED <<entries, reply, query>>
     ELSE LET a == Answer(transport,
                     updateEntry(identity, input.id,
                                 EntryInput(input.id, input.manualDate,
                                            input.customerName,
                                            input.mobileNumber,
                                            toNat(input.amountRs).value),
                                 entries))
          IN /\ entries' = a.entries
             /\ reply' = IF transport = NoFailure THEN a.reply ELSE reply
             /\ raised' = updateEntryMutation(a.reply)
             /\ query' = onSuccess(raised')
  /\ UNCHANGED <<now, identity, exported, evaluated>>
  /\ UNCHANGED importVars

\* mutateAsync of useDeleteEntry with its call to the store.
deleteMutate(id, actorReady, transport) ==
  /\ isAuthenticated
  /\ IF ~actorReady
     THEN /\ raised' = thrownBeforeCall("delete", "Actor not initialized")
          /\ UNCHANGED <<entries, reply, query>>
     ELSE LET a == Answer(transport, deleteEntry(identity, id, entries))
          IN /\ entries' = a.entries
             /\ reply' = IF transport = NoFailure THEN a.reply ELSE reply
             /\ raised' = deleteEntryMutation(a.reply)
             /\ query' = onSuccess(raised')
  /\ UNCHANGED <<now, identity, exported, evaluated>>
  /\ UNCHANGED importVars

\* A retry option that does not look at the kind of the error.
retryAnyError(failureCount, errorMessage) == failureCount < 3

\* The retry option of useListEntries: whether to fetch again after a failure.
retry(failureCount, errorMessage) ==
  IF isAuthorizationError(errorMessage) THEN FALSE ELSE failureCount < 3

\* The entries query starts a fetch (on mount, or after an invalidation).
queryFetch ==
  /\ query.status # "fetching"
  /\ query' = invalidateQueries
  /\ UNCHANGED <<entries, now, reply, identity, exported, evaluated, raised>>
  /\ UNCHANGED importVars

\* One run of queryFn under the query's retryer: the retryer asks retry with
\* the number of failures before this one, and either counts the failure and
\* runs queryFn again or gives the error to the query.
queryAttempt(transport) ==
  /\ query.status = "fetching"
  /\ LET failure == thrownByCall(Answer(transport,
                       [reply |-> listEntriesNewestFirst(identity),
                        entries |-> entries]).reply)
     IN query' =
          IF failure = ""
          THEN [query EXCEPT !.status = "success", !.attempts = @ + 1]
          ELSE IF retry(query.failureCount, failure)
          THEN [query EXCEPT !.failureCount = @ + 1, !.attempts = @ + 1,
                             !.failures = Append(@, failure)]
          ELSE [query EXCEPT !.status = "error", !.attempts = @ + 1,
                             !.failures = Append(@, failure)]
  /\ UNCHANGED <<entries, now, reply, identity, exported, evaluated, raised>>
  /\ UNCHANGED importVars

\* entriesErrorToShow of DataEntryPage: the message of the error the list
\* shows, "" if there is none.
entriesErrorToShow ==
  IF query.status # "error" THEN ""
  ELSE IF isAuthorizationError(query.failures[Len(query.failures)])
  THEN getViewEntriesAuthMessage
  ELSE query.failures[Len(query.failures)]

\* Another client, signed in as bob, creates the entry e1.
otherClientCreates ==
  StoreCreate("bob", EntryInput("e1", <<"2","0","2","4","-","0","3","-","0","3">>, <<"B","o">>, <<"5","5","5","0","0","0","1","1","1","1">>, 9))

\* ------------------------------------------------------------- the dates

\* The characters of a string.
chars(str) == [i \in 1..Len(str) |-> SubSeq(str, i, i)]

\* s.split(c) for a one-character separator c.
split(s, c) ==
  LET seps == {i \in 1..Len(s) : s[i] = c}
      sepAt(k) == IF k = 0 THEN 0
                  ELSE IF k > Cardinality(seps) THEN Len(s) + 1
                  ELSE nth(seps, k)
  IN [k \in 1..(Cardinality(seps) + 1) |->
        SubSeq(s, sepAt(k - 1) + 1, sepAt(k) - 1)]

\* parseInt(s, 10): leading white space, a sign, digits; the rest is ignored.
parseInt(s) ==
  LET t == TrimLeft(s, WhiteSpace)
      signed == t # <<>> /\ Head(t) \in {"-", "+"}
      body == IF signed THEN Tail(t) ELSE t
      n == digitRun(body, 1)
      magnitude == digitsToNat(SubSeq(body, 1, n))
  IN [isNaN |-> n = 0,
      value |-> IF signed /\ Head(t) = "-" THEN 0 - magnitude ELSE magnitude]

\* The number of the day year-month-day (month 1..12) counted from
\* 1970-01-01, in the proleptic Gregorian calendar.
daysFromCivil(year, month, day) ==
  LET y == IF month <= 2 THEN year - 1 ELSE year
      era == y \div 400
      yoe == y - era * 400
      mp == IF month > 2 THEN month - 3 ELSE month + 9
      doy == (153 * mp + 2) \div 5 + day - 1
      doe == yoe * 365 + yoe \div 4 - yoe \div 100 + doy
  IN era * 146097 + doe - 719468

\* The year, month (0..11, as getMonth gives it) and day of a day number.
civilFromDays(z) ==
  LET z2 == z + 719468
      era == z2 \div 146097
      doe == z2 - era * 146097
      yoe == (doe - doe \div 1460 + doe \div 36524 - doe \div 146096) \div 365
      doy == doe - (365 * yoe + yoe \div 4 - yoe \div 100)
      mp == (5 * doy + 2) \div 153
      m == IF mp < 10 THEN mp + 3 ELSE mp - 9
  IN [year |-> yoe + era * 400 + (IF m <= 2 THEN 1 ELSE 0),
      month |-> m - 1,
      day |-> doy - (153 * mp + 2) \div 5 + 1]

\* new Date(year, monthIndex, day), as the number of its local day: a year
\* 0..99 means 1900 + year, and a month or day out of range rolls over.
newDate(year, monthIndex, day) ==
  LET full == IF year \in 0..99 THEN 1900 + year ELSE year
      ym == full + monthIndex \div 12
      mn == monthIndex % 12
  IN daysFromCivil(ym, mn + 1, 1) + day - 1

NoDate == [isNull |-> TRUE, dayNumber |-> 0]

\* parseManualDate without its validation: every constructed date is kept.
validatedDateUnchecked(year, month, day, date) ==
  [isNull |-> FALSE, dayNumber |-> date]

\* The validation of parseManualDate: the date is kept when the calendar
\* gives back the year, month and day it was built from.
validatedDate(year, month, day, date) ==
  IF civilFromDays(date) # [year |-> year, month |-> month, day |-> day]
  THEN NoDate
  ELSE [isNull |-> FALSE, dayNumber |-> date]

\* parseManualDate from the three parsed numbers on: null when one is NaN,
\* else the validated `new Date(year, month, day)` with month 0-indexed.
dateOfNumbers(year, month, day) ==
  IF year.isNaN \/ month.isNaN \/ day.isNaN THEN NoDate
  ELSE validatedDate(year.value, month.value - 1, day.value,
                     newDate(year.value, month.value - 1, day.value))

\* parseManualDate from the split parts on.
dateOfParts(parts) ==
  IF Len(parts) # 3 THEN NoDate
  ELSE dateOfNumbers(parseInt(parts[1]), parseInt(parts[2]),
                     parseInt(parts[3]))

\* parseManualDate: null, or the local day the string names.
parseManualDate(dateString) ==
  IF dateString = <<>> THEN NoDate ELSE dateOfParts(split(dateString, "-"))

\* The local day and the time zone of the browser at `new Date()`.
LocalDay(day, zone) == [day |-> day, zone |-> zone]

\* The time zones of the browser: one without clock changes, and one that
\* puts the clock forward an hour at 2 a.m. of 10 March 2024 and back at
\* 2 a.m. of 3 November 2024 (the days of the model lie in 2024).
TimeZones == {"UTC", "America/New_York"}

\* The hours local time is behind UTC at the local midnight that starts a day.
hoursBehindUTC(zone, dayNumber) ==
  IF zone = "UTC" THEN 0
  ELSE IF /\ dayNumber > daysFromCivil(2024, 3, 10)
          /\ dayNumber <= daysFromCivil(2024, 11, 3)
  THEN 4
  ELSE 5

\* getTime() of the local midnight that starts a day, in hours since the
\* epoch (setHours(0, 0, 0, 0) has set the date to that midnight).
getTime(zone, dayNumber) == 24 * dayNumber + hoursBehindUTC(zone, dayNumber)

\* Math.floor(diffMs / (1000 * 60 * 60 * 24)), diffMs being a whole number
\* of hours.
floorDays(diffHours) == diffHours \div 24

\* The difference calculateDaysSince takes once the date is parsed.
diffDays(manualDate, today) ==
  IF manualDate.isNull THEN [isNull |-> TRUE, days |-> 0]
  ELSE [isNull |-> FALSE,
        days |-> floorDays(getTime(today.zone, today.day)
                           - getTime(today.zone, manualDate.dayNumber))]

\* calculateDaysSince when `new Date()` falls on the local day today.day in
\* the zone today.zone: null, or the days from the manual date to today.
calculateDaysSince(manualDateString, today) ==
  diffDays(parseManualDate(manualDateString), today)

\* ---------------------------------------------------------- the exporters

EXPORT_COLUMNS ==
  << <<"M","a","n","u","a","l"," ","D","a","t","e">>, <<"D","A","Y","S">>, <<"C","u","s","t","o","m","e","r"," ","N","a","m","e">>, <<"M","o","b","i","l","e"," ","N","u","m","b","e","r">>,
     <<"A","m","o","u","n","t"," ","(","R","s",".",")">>, <<"C","r","e","a","t","e","d"," ","A","t">> >>

\* The cells of an export row: strings and numbers.
Str(text) == [kind |-> "string", value |-> text]

Num(n) == [kind |-> "number", value |-> n]

\* String(cell)
String(cell) ==
  IF cell.kind = "number" THEN chars(ToString(cell.value)) ELSE cell.value

\* formatTimestamp for the timestamps of the model, which all lie within the
\* first minute after 1970-01-01T00:00Z, rendered in the UTC time zone.
formatTimestamp(timestamp) == <<"J","a","n"," ","1",","," ","1","9","7","0",","," ","1","2",":","0","0"," ","A","M">>

\* The DAYS cell of buildExportRow: the day count, or '' when it is null.
daysCell(daysSince) ==
  IF daysSince.isNull THEN Str(<<>>) ELSE Num(daysSince.days)

\* buildExportRow, `new Date()` falling on the local day today.
buildExportRow(entry, today) ==
  << Str(entry.manualDate),
     daysCell(calculateDaysSince(entry.manualDate, today)),
     Str(entry.customerName),
     Str(entry.mobileNumber),
     Num(entry.amountRs),
     Str(formatTimestamp(entry.createdAt)) >>

includes(str, c) == \E i \in 1..Len(str) : str[i] = c

\* str.replace(/"/g, '""')
doubleQuotes(str) ==
  LET q(i) == Cardinality({j \in 1..i : str[j] = "\""})
  IN [k \in 1..(Len(str) + q(Len(str))) |->
        str[CHOOSE i \in 1..Len(str) : i - 1 + q(i - 1) < k /\ k <= i + q(i)]]

\* escapeCSVField, the same in entriesImportExport.ts and in exportToXLSX.
escapeCSVField(field) ==
  IF includes(String(field), ",") \/ includes(String(field), "\"")
     \/ includes(String(field), "\n")
  THEN <<"\"">> \o doubleQuotes(String(field)) \o <<"\"">>
  ELSE String(field)

\* parts.join(sep)
RECURSIVE join(_, _)
join(parts, sep) ==
  IF parts = <<>> THEN <<>>
  ELSE IF Len(parts) = 1 THEN parts[1]
  ELSE parts[1] \o sep \o join(Tail(parts), sep)

\* row.map(escapeCSVField).join(',')
csvRow(row) ==
  join([j \in 1..Len(row) |-> escapeCSVField(row[j])], <<",">>)

\* The CSV text both CSV exporters build.
csvContent(entryList, today) ==
  join(<< csvRow([j \in 1..Len(EXPORT_COLUMNS) |-> Str(EXPORT_COLUMNS[j])]) >>
       \o [i \in 1..Len(entryList) |->
             csvRow(buildExportRow(entryList[i], today))],
       <<"\n">>)

\* What a call of an exporter leaves: the error it throws ("" if it returns),
\* the browser objects it made, in order, the download attribute of its link,
\* the cells it wrote as markup, and the content of its blob or document.
Exported(fn, args, thrown, made, download, cells, content) ==
  [fn |-> fn, args |-> args, done |-> TRUE, thrown |-> thrown, made |-> made,
   download |-> download, cells |-> cells, content |-> content]

\* An exporter is called with args and has not run yet.
Calling(fn, args) ==
  [Exported(fn, args, "", <<>>, <<>>, <<>>, <<>>) EXCEPT !.done = FALSE]

\* The arguments of a call, with the day it is made on.
ExportArgs(entryList, filename, today) ==
  [entries |-> entryList, filename |-> filename, today |-> today]

PDFArgs(entryList, popupBlocked, today) ==
  [entries |-> entryList, popupBlocked |-> popupBlocked, today |-> today]

NoEntries(fn, args) ==
  Exported(fn, args, "No entries to export", <<>>, <<>>, <<>>, <<>>)

\* The objects made for a download: the blob, the link and the object URL.
DownloadObjects == <<"Blob", "a", "ObjectURL">>

\* exportToCSV without the check for an empty list.
exportToCSVUnchecked(entryList, filename, today) ==
  Exported("exportToCSV", ExportArgs(entryList, filename, today),
           "", DownloadObjects, filename, <<>>, csvContent(entryList, today))

exportToCSV(entryList, filename, today) ==
  IF Len(entryList) = 0
  THEN NoEntries("exportToCSV", ExportArgs(entryList, filename, today))
  ELSE Exported("exportToCSV", ExportArgs(entryList, filename, today),
                "", DownloadObjects, filename, <<>>,
                csvContent(entryList, today))

repeat(c, n) == [i \in 1..n |-> c]

\* s.padEnd(width)
padEnd(s, width) ==
  IF Len(s) >= width THEN s ELSE s \o repeat(" ", width - Len(s))

Max(a, b) == IF a >= b THEN a ELSE b

\* Math.max of the numbers of a non-empty set.
MaxOf(numbers) == CHOOSE n \in numbers : \A m \in numbers : m <= n

\* The text table exportToText builds.
textContent(entryList, today) ==
  LET rows == [i \in 1..Len(entryList) |-> buildExportRow(entryList[i], today)]
      colWidths ==
        [j \in 1..Len(EXPORT_COLUMNS) |->
           Max(Len(EXPORT_COLUMNS[j]),
               MaxOf({Len(String(rows[i][j])) : i \in 1..Len(rows)}))]
      headerRow ==
        join([j \in 1..Len(EXPORT_COLUMNS) |->
                padEnd(EXPORT_COLUMNS[j], colWidths[j])], <<" ","|"," ">>)
      separator ==
        join([j \in 1..Len(colWidths) |-> repeat("-", colWidths[j])], <<"-","+","-">>)
      dataRows ==
        [i \in 1..Len(rows) |->
           join([j \in 1..Len(rows[i]) |->
                   padEnd(String(rows[i][j]), colWidths[j])], <<" ","|"," ">>)]
  IN join(<< <<"D","a","t","a"," ","E","n","t","r","i","e","s">>, repeat("=", Len(headerRow)), <<>>, headerRow,
             separator >> \o dataRows, <<"\n">>)

exportToText(entryList, filename, today) ==
  IF Len(entryList) = 0
  THEN NoEntries("exportToText", ExportArgs(entryList, filename, today))
  ELSE Exported("exportToText", ExportArgs(entryList, filename, today),
                "", DownloadObjects, filename, <<>>,
                textContent(entryList, today))

\* s.replace(pattern, replacement) for a string pattern: the first occurrence
\* only.
replace(s, pattern, replacement) ==
  LET hits == {i \in 1..(Len(s) - Len(pattern) + 1) :
                 SubSeq(s, i, i + Len(pattern) - 1) = pattern}
      first == CHOOSE i \in hits : \A j \in hits : i <= j
  IN IF hits = {} THEN s
     ELSE SubSeq(s, 1, first - 1) \o replacement
          \o SubSeq(s, first + Len(pattern), Len(s))

BOM == <<"BOM">>

exportToXLSX(entryList, filename, today) ==
  IF Len(entryList) = 0
  THEN NoEntries("exportToXLSX", ExportArgs(entryList, filename, today))
  ELSE Exported("exportToXLSX", ExportArgs(entryList, filename, today),
                "", DownloadObjects, replace(filename, <<".","x","l","s","x">>, <<".","c","s","v">>),
                <<>>, BOM \o csvContent(entryList, today))

\* tableRows of exportToPDF: for each row the markup written into each <td>.
tableCells(entryList, today) ==
  [i \in 1..Len(entryList) |->
     [j \in 1..Len(EXPORT_COLUMNS) |->
        String(buildExportRow(entryList[i], today)[j])]]

\* tableRows of exportToPDF as text.
tableRows(entryList, today) ==
  join([i \in 1..Len(entryList) |->
          <<"<","t","r",">">>
          \o join([j \in 1..Len(EXPORT_COLUMNS) |->
                     <<"<","t","d",">">> \o tableCells(entryList, today)[i][j] \o <<"<","/","t","d",">">>],
                  <<>>)
          \o <<"<","/","t","r",">">>], <<>>)

\* The catch block of exportToPDF: whatever was thrown in the try block, the
\* error thrown on is the generic one.
catchExportPDF(thrown) == "Failed to export PDF. Please try again."

\* exportToPDF; popupBlocked says that window.open returns null. The error
\* thrown for a blocked pop-up is thrown inside the try block and replaced by
\* the catch block.
exportToPDF(entryList, popupBlocked, today) ==
  IF Len(entryList) = 0
  THEN NoEntries("exportToPDF", PDFArgs(entryList, popupBlocked, today))
  ELSE IF popupBlocked
  THEN Exported("exportToPDF", PDFArgs(entryList, popupBlocked, today),
                catchExportPDF("Please allow pop-ups to export PDF"),
                <<>>, <<>>, <<>>, <<>>)
  ELSE Exported("exportToPDF", PDFArgs(entryList, popupBlocked, today),
                "", <<"Window">>, <<>>, tableCells(entryList, today),
                tableRows(entryList, today))

\* No exporter has been called yet.
NoExport == Exported("none", <<>>, "", <<>>, <<>>, <<>>, <<>>)

\* No validator or helper has been called yet.
NoCall ==
  [fn |-> "none", arg |-> <<>>, done |-> TRUE, result |-> <<>>,
   written |-> <<>>]

\* No mutation has run yet.
NoOutcome == Outcome("none", 0, NotCalled, "", "")

\* The entries query before its first fetch.
IdleQuery ==
  [status |-> "idle", failureCount |-> 0, attempts |-> 0, failures |-> <<>>]

InitStore ==
  /\ entries = <<>>
  /\ now = 0
  /\ reply = [kind |-> "none", field |-> "", message |-> ""]

InitClient ==
  /\ pc = "idle"
  /\ isImporting = FALSE
  /\ fileText = <<>>
  /\ fileName = <<>>
  /\ parsePromise = Pending
  /\ validRows = <<>>
  /\ parseErrors = <<>>
  /\ rowIdx = 0
  /\ successCount = 0
  /\ failCount = 0
  /\ inflight = {}
  /\ idSeed = 0
  /\ issued = <<>>
  /\ settled = <<>>
  /\ invalidateLog = <<>>
  /\ toasts = <<>>
  /\ raised = NoOutcome
  /\ query = IdleQuery

\* No exporter, validator or helper is being called.
InitCalls ==
  /\ exported = NoExport
  /\ evaluated = NoCall

\* The query endpoint: it traps for a caller without the user permission and
\* otherwise answers with the entries; a query call cannot change the map.
StoreList(caller) ==
  /\ reply' = listEntriesNewestFirst(caller)
  /\ UNCHANGED <<entries, now, identity, exported, evaluated>>
  /\ UNCHANGED importVars
  /\ UNCHANGED uiVars

Init ==
  /\ InitStore
  /\ InitClient
  /\ InitCalls
  /\ identity = "anon"

Next ==
  \/ \E c \in StoreCallers, input \in StoreInputs : StoreCreate(c, input)
  \/ \E c \in StoreCallers, id \in StoreIds, input \in StoreInputs :
       StoreUpdate(c, id, input)
  \/ \E c \in StoreCallers, id \in StoreIds : StoreDelete(c, id)
  \/ \E c \in StoreCallers : StoreList(c)
  \/ Tick

Spec == Init /\ [][Next]_vars

\* The client's import against the store; the signed-in identity is a user,
\* a principal without the user role, or nobody.
InitImport ==
  /\ InitStore
  /\ InitClient
  /\ InitCalls
  /\ identity \in {"alice", "carol", "anon"}

NextImport ==
  \/ handleImportClick
  \/ handleAuth
  \/ handleFileChangeNoFile
  \/ fileInputOnChange
  \/ readerOnLoad
  \/ readerOnError
  \/ afterParse
  \/ \E actorReady \in BOOLEAN : mutateStart(actorReady)
  \/ \E call \in inflight : createRejected(call)
  \/ \E call \in inflight : createAnswered(call)
  \/ importFinish

SpecImport == InitImport /\ [][NextImport]_vars

\* The client's form, mutations and list query against the store, with
\* another client creating entries; the signed-in identity is a user or a
\* principal without the user role.
InitMutations ==
  /\ InitStore
  /\ InitClient
  /\ InitCalls
  /\ identity \in {"alice", "carol"}

Transports == {NoFailure} \cup TransportFailures

NextMutations ==
  \/ \E formData \in FormInputs, actorReady \in BOOLEAN,
        transport \in Transports :
       handleSubmit(formData, actorReady, transport)
  \/ \E input \in UpdateInputs, actorReady \in BOOLEAN,
        transport \in Transports :
       updateMutate(input, actorReady, transport)
  \/ \E id \in MutationIds, actorReady \in BOOLEAN,
        transport \in Transports :
       deleteMutate(id, actorReady, transport)
  \/ otherClientCreates

SpecMutations == InitMutations /\ [][NextMutations]_vars

\* The client's list query, fetched and retried while entries are created by
\* another client and updated and deleted through the client's mutations.
NextQuery ==
  \/ queryFetch
  \/ \E transport \in Transports : queryAttempt(transport)
  \/ \E input \in UpdateInputs, actorReady \in BOOLEAN,
        transport \in Transports :
       updateMutate(input, actorReady, transport)
  \/ \E id \in MutationIds, actorReady \in BOOLEAN,
        transport \in Transports :
       deleteMutate(id, actorReady, transport)
  \/ otherClientCreates

SpecQuery == InitMutations /\ [][NextQuery]_vars

\* The whole client: the form, the three mutations and the list query, with
\* another client creating an entry.
NextClient ==
  \/ NextMutations
  \/ queryFetch
  \/ \E transport \in Transports : queryAttempt(transport)

SpecClient == InitMutations /\ [][NextClient]_vars

\* ------------------------------------------------- claims about the store

\* Some call by caller c makes this step.
CalledBy(c) ==
  \/ \E input \in StoreInputs : StoreCreate(c, input)
  \/ \E id \in StoreIds, input \in StoreInputs : StoreUpdate(c, id, input)
  \/ \E id \in StoreIds : StoreDelete(c, id)

\* C1: no store call changes the createdAt or the owner of an entry whose id
\* is in the map before and after the call.
C1_CreatedAtOwnerImmutable ==
  [][\A id \in (DOMAIN entries) \cap (DOMAIN entries') :
       /\ entries'[id].createdAt = entries[id].createdAt
       /\ entries'[id].owner = entries[id].owner]_vars

\* C2: a call by a caller who is neither the owner of an existing entry nor
\* an admin leaves that entry in the map with its manualDate, customerName,
\* mobileNumber and amountRs unchanged.
C2_OnlyOwnerOrAdminMutates ==
  [][\A c \in StoreCallers : \A id \in DOMAIN entries :
       (CalledBy(c) /\ entries[id].owner # c /\ ~isAdmin(c)) =>
         /\ id \in DOMAIN entries'
         /\ entries'[id].manualDate = entries[id].manualDate
         /\ entries'[id].customerName = entries[id].customerName
         /\ entries'[id].mobileNumber = entries[id].mobileNumber
         /\ entries'[id].amountRs = entries[id].amountRs]_vars
\* ------------------------------------------------ claims about the import

\* The import loop of handleFileChange ran and the handler returned.
LoopEnded == pc = "done" /\ Len(validRows) > 0

\* The number of settled create calls that resolved (ok) or rejected (~ok).
Resolutions(calls, ok) ==
  Cardinality({i \in 1..Len(calls) : calls[i].ok = ok})

\* C3: when the import loop has ended, every valid row was attempted, in
\* order, whatever failed before it; successCount and failCount are the
\* numbers of creates that succeeded and failed and add up to the number of
\* valid rows; and the entry of every create that succeeded is in the store
\* with the row's data.
C3_BestEffortImport ==
  LoopEnded =>
    /\ Len(settled) = Len(validRows)
    /\ \A i \in 1..Len(settled) : settled[i].row = i
    /\ successCount = Resolutions(settled, TRUE)
    /\ failCount = Resolutions(settled, FALSE)
    /\ successCount + failCount = Len(validRows)
    /\ \A i \in 1..Len(settled) :
         settled[i].ok =>
           /\ settled[i].id \in DOMAIN entries
           /\ entries[settled[i].id].manualDate = validRows[i].manualDate
           /\ entries[settled[i].id].customerName = validRows[i].customerName
           /\ entries[settled[i].id].mobileNumber = validRows[i].mobileNumber
           /\ entries[settled[i].id].amountRs = toNat(validRows[i].amountRs).value
           /\ entries[settled[i].id].owner = identity

\* An import of two valid rows ended with the first create failed and the
\* second succeeded.
C3_Witness ==
  /\ LoopEnded
  /\ Len(settled) = 2
  /\ ~settled[1].ok
  /\ settled[2].ok
  /\ successCount = 1
  /\ failCount = 1

\* C4: the create calls of an import are started in the order of the valid
\* rows, at most one is in flight, and a call is started only when the calls
\* of all rows before it have resolved or rejected.
C4_SequentialCreates ==
  /\ Cardinality(inflight) <= 1
  /\ \A i \in 1..Len(issued) : issued[i] = i
  /\ Len(issued) <= Len(settled) + 1
  /\ \A c \in inflight : c.row = Len(issued) /\ Len(settled) = c.row - 1

\* The call for the second row is in flight, the first row's call is settled.
C4_Witness ==
  /\ \E c \in inflight : c.row = 2
  /\ Len(settled) = 1

\* C5: during one import the entries list is invalidated exactly once, after
\* the last row has been attempted.
C5_InvalidatedOnceAtEnd ==
  LoopEnded => invalidateLog = <<Len(validRows)>>

\* ------------------------------------------------ claims about the parser

\* The promise of parseXLSXFile was settled by reader.onload.
Parsed == pc = "parsed"

Synonyms == { COLUMN_MAPPINGS[i][1] : i \in 1..Len(COLUMN_MAPPINGS) }

\* The header cell is, lower-cased and trimmed, a synonym of the dictionary.
IsSynonym(cell) == JsTrim(toLowerCase(cell)) \in Synonyms

HeaderCells(text) == parseCSVLine(nonBlankLines(text)[1])

IsMessage(e) == e # ""

\* The messages of the checks the row fails, in the order date required,
\* name required, mobile format, amount format.
FailedChecks(row) ==
  SelectSeq(<<validateRequired(row.manualDate, "Manual Date").error,
              validateRequired(row.customerName, "Customer Name").error,
              validateMobileNumber(row.mobileNumber).error,
              validateAmount(row.amountRs).error>>, IsMessage)

\* What a data line is to the parser under the header cells: the code's
\* hasAnyField, whether one of its cells lies under a synonym, its four-field
\* candidate row, and the messages of the checks that row fails.
LineView(line, headers) ==
  LET cells == parseCSVLine(JsTrim(line))
      a == assignFields(cells, mapHeaders(headers), 1, <<>>, FALSE)
      row == completeRow(a.parsedRow)
  IN [hasAnyField |-> a.hasAnyField,
      hasMappedField |->
        \E j \in 1..Min(Len(cells), Len(headers)) : IsSynonym(headers[j]),
      row |-> row,
      failed |-> FailedChecks(row)]

\* The view of every data line of a text with a non-blank line, by the index
\* of the line among the non-blank lines (the header line is 1).
DataView(text) ==
  LET lines == nonBlankLines(text)
      headers == parseCSVLine(lines[1])
  IN [k \in 2..Len(lines) |-> LineView(lines[k], headers)]

\* The messages of the errors recorded for row number k, in order.
RECURSIVE MessagesAt(_, _)
MessagesAt(errors, k) ==
  IF errors = <<>> THEN <<>>
  ELSE IF Head(errors).row = k
  THEN <<Head(errors).message>> \o MessagesAt(Tail(errors), k)
  ELSE MessagesAt(Tail(errors), k)

\* The members of a set of numbers, in ascending order.
RECURSIVE Ascending(_)
Ascending(S) ==
  IF S = {} THEN <<>>
  ELSE LET m == CHOOSE x \in S : \A y \in S : x <= y
       IN <<m>> \o Ascending(S \ {m})

\* C6: parseXLSXFile rejects exactly when the file has no non-blank line, or
\* no header cell maps to a known field, or no data line yields a valid row
\* or an error; in every other case it resolves.
C6_RejectsExactlyWhenStructural ==
  Parsed =>
    (parsePromise.status = "rejected" <=>
       \/ nonBlankLines(fileText) = <<>>
       \/ \A j \in 1..Len(HeaderCells(fileText)) :
            ~IsSynonym(HeaderCells(fileText)[j])
       \/ LET view == DataView(fileText)
          IN \A k \in DOMAIN view : ~view[k].hasMappedField)

\* C7: a header cell that is not one of the 14 synonyms maps to NULL, and a
\* file none of whose header cells is a synonym is rejected with "No
\* recognized columns found in the file".
C7_UnknownHeadersUnrecognized ==
  (Parsed /\ nonBlankLines(fileText) # <<>>) =>
    LET headers == HeaderCells(fileText)
    IN /\ \A j \in 1..Len(headers) :
            ~IsSynonym(headers[j]) => normalizeColumnName(headers[j]) = NULL
       /\ (\A j \in 1..Len(headers) : ~IsSynonym(headers[j])) =>
            /\ parsePromise.status = "rejected"
            /\ parsePromise.message = "No recognized columns found in the file"

\* C8: a data line whose candidate row fails some check has exactly one
\* error, with the message of the first failing check in the order date, name,
\* mobile, amount; a line that fails none has no error; and the valid rows
\* are as many as the lines that fail none.
C8_FirstFailingCheckOnly ==
  (Parsed /\ parsePromise.status = "resolved") =>
    LET view == DataView(fileText)
    IN /\ \A k \in DOMAIN view :
            view[k].hasAnyField =>
              MessagesAt(parsePromise.errors, k) =
                IF view[k].failed = <<>> THEN <<>>
                ELSE <<"Row " \o ToString(k) \o ": " \o view[k].failed[1]>>
       /\ Len(parsePromise.validRows) =
            Cardinality({k \in DOMAIN view :
                           view[k].hasAnyField /\ view[k].failed = <<>>})

\* The row ",Jane,123,500" (no date, short mobile) under the header
\* Date,Name,Mobile,Amount gave one error, about the date, and no valid row.
C8_Witness ==
  /\ Parsed
  /\ fileText = <<"D","a","t","e",",","N","a","m","e",",","M","o","b","i","l","e",",","A","m","o","u","n","t","\n",",","J","a","n","e",",","1","2","3",",","5","0","0">>
  /\ parsePromise.status = "resolved"
  /\ parsePromise.validRows = <<>>
  /\ parsePromise.errors =
       <<[row |-> 2, message |-> "Row 2: Manual Date is required"]>>

\* The position, among all lines of the text, of its k-th non-blank line.
RECURSIVE PhysicalPosition(_, _, _)
PhysicalPosition(allLines, k, p) ==
  IF isNonBlank(allLines[p])
  THEN IF k = 1 THEN p ELSE PhysicalPosition(allLines, k - 1, p + 1)
  ELSE PhysicalPosition(allLines, k, p + 1)

\* The data lines that are rejected, as indices among the non-blank lines.
RejectedLines(view) ==
  {k \in DOMAIN view : view[k].hasAnyField /\ view[k].failed # <<>>}

\* C9: the row number of every import error is the position of the offending
\* line in the file, counting every line of the file from 1.
C9_RowNumberIsFilePosition ==
  (Parsed /\ parsePromise.status = "resolved") =>
    LET rejected == Ascending(RejectedLines(DataView(fileText)))
    IN /\ Len(parsePromise.errors) = Len(rejected)
       /\ \A i \in 1..Len(parsePromise.errors) :
            parsePromise.errors[i].row =
              PhysicalPosition(splitLines(fileText), rejected[i], 1)

\* The data lines with a mapped field that pass every check.
AcceptedLines(view) ==
  {k \in DOMAIN view : view[k].hasMappedField /\ view[k].failed = <<>>}

\* C10: validRows holds the candidate rows of the accepted lines in file
\* order, the row numbers of errors ascend, and each data line with a mapped
\* field is in exactly one of the lists: an accepted line has no error, a
\* line that is not accepted has exactly one.
C10_OrderedPartition ==
  (Parsed /\ parsePromise.status = "resolved") =>
    LET view == DataView(fileText)
        accepted == Ascending(AcceptedLines(view))
    IN /\ Len(parsePromise.validRows) = Len(accepted)
       /\ \A i \in 1..Len(accepted) :
            parsePromise.validRows[i] = view[accepted[i]].row
       /\ \A i \in 1..(Len(parsePromise.errors) - 1) :
            parsePromise.errors[i].row < parsePromise.errors[i + 1].row
       /\ \A k \in DOMAIN view :
            view[k].hasMappedField =>
              Len(MessagesAt(parsePromise.errors, k)) =
                IF k \in AcceptedLines(view) THEN 0 ELSE 1

\* A file whose second line is rejected and whose third line is accepted.
C10_Witness ==
  /\ Parsed
  /\ parsePromise.status = "resolved"
  /\ Len(parsePromise.errors) = 1
  /\ parsePromise.errors[1].row = 2
  /\ Len(parsePromise.validRows) = 1
  /\ 3 \in AcceptedLines(DataView(fileText))

\* --------------------------------------- claims about the stored entries

\* The text is a date in strict YYYY-MM-DD form.
IsIsoDate(s) ==
  /\ Len(s) = 10
  /\ s[5] = "-"
  /\ s[8] = "-"
  /\ \A i \in {1, 2, 3, 4, 6, 7, 9, 10} : isDigit(s[i])

\* C11: every entry in the store has a manualDate in strict YYYY-MM-DD form,
\* a non-empty customerName, a mobileNumber of 10 to 15 digits and an
\* amountRs that is a natural number.
C11_StoredEntriesWellFormed ==
  \A id \in DOMAIN entries :
    /\ IsIsoDate(entries[id].manualDate)
    /\ entries[id].customerName # <<>>
    /\ Len(entries[id].mobileNumber) \in 10..15
    /\ \A i \in 1..Len(entries[id].mobileNumber) :
         isDigit(entries[id].mobileNumber[i])
    /\ entries[id].amountRs \in Nat


\* ------------------------------------------- the exporters and helpers called

Entry(id, manualDate, customerName, mobileNumber, amountRs) ==
  [id |-> id, manualDate |-> manualDate, customerName |-> customerName,
   mobileNumber |-> mobileNumber, amountRs |-> amountRs, createdAt |-> 0,
   owner |-> "alice"]

\* The entries the exporters are given: a plain one, one whose name holds
\* markup characters, and one whose name holds CSV delimiters and whose date
\* does not parse.
ExportPool ==
  { Entry("c1", <<"2","0","2","4","-","0","3","-","0","1">>, <<"J","a","n","e">>, <<"1","2","3","4","5","6","7","8","9","0">>, 500),
    Entry("c2", <<"2","0","2","4","-","0","2","-","2","8">>, <<"<","b",">","A","l"," ","&"," ","C","o","<","/","b",">">>, <<"5","5","5","0","0","0","1","1","1","1">>, 7),
    Entry("c3", <<"1","/","2","/","2","4">>, <<"a",",","\"","b","\"","\n","c">>, <<"1","0","9","8","7","6","5","4","3","2">>, 12) }

\* The entry lists given to an exporter: up to two entries of the pool.
ExportLists ==
  {<<>>} \cup {<<e>> : e \in ExportPool}
  \cup {pair \in ExportPool \X ExportPool : pair[1] # pair[2]}

\* The file names given to an exporter: the default names, the name
\* DataEntryPage passes, and other names a caller can pass.
ExportFileNames ==
  { <<"e","n","t","r","i","e","s",".","x","l","s","x">>, <<"e","n","t","r","i","e","s",".","c","s","v">>, <<"d","a","t","a","-","e","n","t","r","i","e","s",".","c","s","v">>, <<"r","e","p","o","r","t">>,
    <<"Q","1",".","X","L","S","X">>, <<"a",".","x","l","s","x",".","x","l","s","x">> }

\* The days on which an export runs: 2024-03-01 and the day after.
ExportDays == {LocalDay(19783, "UTC"), LocalDay(19784, "UTC")}

\* The calls of the exporters.
ExportCalls ==
  { Calling(fn, ExportArgs(entryList, filename, today)) :
      fn \in {"exportToCSV", "exportToText", "exportToXLSX"},
      entryList \in ExportLists, filename \in ExportFileNames,
      today \in ExportDays } \cup
  { Calling("exportToPDF", PDFArgs(entryList, popupBlocked, today)) :
      entryList \in ExportLists, popupBlocked \in BOOLEAN,
      today \in ExportDays }

callExportToCSV ==
  /\ exported.fn = "exportToCSV" /\ ~exported.done
  /\ exported' = exportToCSV(exported.args.entries, exported.args.filename,
                             exported.args.today)
  /\ UNCHANGED <<entries, now, reply, identity, raised, query, evaluated>>
  /\ UNCHANGED importVars

callExportToText ==
  /\ exported.fn = "exportToText" /\ ~exported.done
  /\ exported' = exportToText(exported.args.entries, exported.args.filename,
                              exported.args.today)
  /\ UNCHANGED <<entries, now, reply, identity, raised, query, evaluated>>
  /\ UNCHANGED importVars

callExportToXLSX ==
  /\ exported.fn = "exportToXLSX" /\ ~exported.done
  /\ exported' = exportToXLSX(exported.args.entries, exported.args.filename,
                              exported.args.today)
  /\ UNCHANGED <<entries, now, reply, identity, raised, query, evaluated>>
  /\ UNCHANGED importVars

callExportToPDF ==
  /\ exported.fn = "exportToPDF" /\ ~exported.done
  /\ exported' = exportToPDF(exported.args.entries,
                             exported.args.popupBlocked, exported.args.today)
  /\ UNCHANGED <<entries, now, reply, identity, raised, query, evaluated>>
  /\ UNCHANGED importVars

\* One call of one exporter, with its arguments chosen at the start.
InitExport ==
  /\ InitStore
  /\ InitClient
  /\ identity = "alice"
  /\ exported \in ExportCalls
  /\ evaluated = NoCall

NextExport ==
  \/ callExportToCSV
  \/ callExportToText
  \/ callExportToXLSX
  \/ callExportToPDF

SpecExport == InitExport /\ [][NextExport]_vars

\* ------------------------------------- the validators and CSV helpers called

\* A validator or helper is called with arg and has not run yet; written is
\* the field a CSV text was made from.
Evaluating(fn, arg) ==
  [fn |-> fn, arg |-> arg, done |-> FALSE, result |-> <<>>, written |-> <<>>]

\* All strings of up to n characters of the alphabet.
RECURSIVE StringsUpTo(_, _)
StringsUpTo(alphabet, n) ==
  IF n = 0 THEN {<<>>}
  ELSE StringsUpTo(alphabet, n - 1)
       \cup {Append(s, c) : s \in StringsUpTo(alphabet, n - 1), c \in alphabet}

\* The fields given to escapeCSVField: every string of up to MaxFieldLen
\* letters, spaces, commas, double quotes and line feeds.
CsvFields == StringsUpTo({"a", " ", ",", "\"", "\n"}, MaxFieldLen)

\* The amounts given to validateAmount: every string of up to MaxAmountLen
\* of these characters.
AmountInputs == StringsUpTo({"0", "5", ".", "-", "+", " ", "a"}, MaxAmountLen)

\* The mobile numbers given to validateMobileNumber: runs of 0 to 17 digits,
\* as they are or with another character put first or last.
MobileInputs ==
  LET digits(n) == SubSeq(<<"1","2","3","4","5","6","7","8","9","0","1","2","3","4","5","6","7">>, 1, n)
  IN {digits(n) : n \in 0..17}
     \cup {<<c>> \o digits(n) : n \in 0..17, c \in {"a", " ", "+", "-", "."}}
     \cup {digits(n) \o <<c>> : n \in 0..17, c \in {"a", " ", "\n", "."}}

HelperCalls ==
  {Evaluating("escapeCSVField", field) : field \in CsvFields}
  \cup {Evaluating("validateAmount", value) : value \in AmountInputs}
  \cup {Evaluating("validateMobileNumber", value) : value \in MobileInputs}

callValidateMobileNumber ==
  /\ evaluated.fn = "validateMobileNumber" /\ ~evaluated.done
  /\ evaluated' = [evaluated EXCEPT
                     !.done = TRUE,
                     !.result = validateMobileNumber(evaluated.arg)]
  /\ UNCHANGED <<entries, now, reply, identity, raised, query, exported>>
  /\ UNCHANGED importVars

callValidateAmount ==
  /\ evaluated.fn = "validateAmount" /\ ~evaluated.done
  /\ evaluated' = [evaluated EXCEPT
                     !.done = TRUE,
                     !.result = validateAmount(evaluated.arg)]
  /\ UNCHANGED <<entries, now, reply, identity, raised, query, exported>>
  /\ UNCHANGED importVars

callEscapeCSVField ==
  /\ evaluated.fn = "escapeCSVField" /\ ~evaluated.done
  /\ evaluated' = [evaluated EXCEPT
                     !.done = TRUE,
                     !.result = escapeCSVField(Str(evaluated.arg))]
  /\ UNCHANGED <<entries, now, reply, identity, raised, query, exported>>
  /\ UNCHANGED importVars

\* parseCSVLine is given the text escapeCSVField returned.
callParseCSVLine ==
  /\ evaluated.fn = "escapeCSVField" /\ evaluated.done
  /\ evaluated' = [fn |-> "parseCSVLine", arg |-> evaluated.result,
                   done |-> TRUE, result |-> parseCSVLine(evaluated.result),
                   written |-> evaluated.arg]
  /\ UNCHANGED <<entries, now, reply, identity, raised, query, exported>>
  /\ UNCHANGED importVars

\* One call of a validator, or of escapeCSVField followed by parseCSVLine,
\* with its argument chosen at the start.
InitHelpers ==
  /\ InitStore
  /\ InitClient
  /\ identity = "alice"
  /\ exported = NoExport
  /\ evaluated \in HelperCalls

NextHelpers ==
  \/ callValidateMobileNumber
  \/ callValidateAmount
  \/ callEscapeCSVField
  \/ callParseCSVLine

SpecHelpers == InitHelpers /\ [][NextHelpers]_vars

\* ---------------------------------------------- claims about error messages

\* The generic texts a mutation raises when the store's answer has no message
\* it knows.
GenericFallbacks ==
  { "Failed to save entry. Please try again.",
    "Failed to update entry. Please try again.",
    "Failed to delete entry. Please try again." }

\* C12: when the store answers a create, update or delete with a domain error
\* (emptyField, invalidAmount, notFound, unauthorized), the error the mutation
\* raises carries exactly the store's message, and a generic fallback is raised
\* only when the store supplied no message.
C12_DomainErrorsVerbatim ==
  /\ raised.storeMessage # "" => raised.message = raised.storeMessage
  /\ raised.message \in GenericFallbacks => raised.storeMessage = ""


\* ------------------------------------------------- claims about retrying

\* No failure of the fetch that was an authorization error was followed by
\* another attempt: such a failure is the last one and ended the fetch.
NeverRetriedAfterAuthorizationError ==
  \A i \in 1..Len(query.failures) :
    isAuthorizationError(query.failures[i]) =>
      i = Len(query.failures) /\ query.status = "error"

\* C14, as stated: one fetch of the entry list is attempted at most 3 times in
\* total, it is never retried after an authorization error, and a create,
\* update or delete mutation calls the store at most once.
C14_AtMostThreeAttempts ==
  /\ query.attempts <= 3
  /\ NeverRetriedAfterAuthorizationError
  /\ raised.calls <= 1

\* C14, amended: one fetch of the entry list is attempted at most 4 times in
\* total (the first attempt and up to 3 retries), it is never retried after an
\* authorization error, and a create, update or delete mutation calls the
\* store at most once.
C14_AtMostThreeRetries ==
  /\ query.attempts <= 4
  /\ query.failureCount <= 3
  /\ NeverRetriedAfterAuthorizationError
  /\ raised.calls <= 1

\* A fetch gave up after its fourth attempt failed, none of the failures being
\* an authorization error, and a mutation has called the store.
C14_Witness ==
  /\ query.status = "error"
  /\ query.attempts = 4
  /\ \A i \in 1..4 : ~isAuthorizationError(query.failures[i])
  /\ raised.calls = 1


\* ------------------------------------------- claims about sign-in prompts

\* The letters of 'unauthorized', each in both cases.
UnauthorizedLetters ==
  << {"u", "U"}, {"n", "N"}, {"a", "A"}, {"u", "U"}, {"t", "T"}, {"h", "H"},
     {"o", "O"}, {"r", "R"}, {"i", "I"}, {"z", "Z"}, {"e", "E"}, {"d", "D"} >>

\* The text contains 'unauthorized', in any mix of upper and lower case.
ContainsUnauthorized(text) ==
  \E i \in 1..(Len(text) - 11) :
    \A j \in 1..12 : SubSeq(text, i + j - 1, i + j - 1) \in UnauthorizedLetters[j]

\* The sign-in prompt of each operation.
SignInPrompt(op) ==
  CASE op = "create" -> getCreateEntryAuthMessage
    [] op = "update" -> getUpdateEntryAuthMessage
    [] op = "delete" -> getDeleteEntryAuthMessage
    [] op = "list" -> getViewEntriesAuthMessage
    [] OTHER -> ""

Shown == {toasts[i].message : i \in 1..Len(toasts)}

Ran(fn) == exported.fn = fn /\ exported.done

Exporters == {"exportToCSV", "exportToText", "exportToXLSX", "exportToPDF"}

\* C15: every exporter called with an empty entry list throws 'No entries to
\* export' and has made no blob, link, object URL or window.
C15_EmptyListFailsBeforeIO ==
  \A fn \in Exporters :
    Ran(fn) /\ exported.args.entries = <<>> =>
      exported.thrown = "No entries to export" /\ exported.made = <<>>

\* The XLSX exporter has run on an empty list.
C15_Witness ==
  /\ Ran("exportToXLSX")
  /\ exported.args.entries = <<>>
  /\ exported.thrown = "No entries to export"

\* C16: when window.open returns null for a non-empty list, exportToPDF throws
\* an error that is neither 'No entries to export' nor the generic export
\* failure.
C16_BlockedPopupHasOwnError ==
  (Ran("exportToPDF") /\ exported.args.entries # <<>>
     /\ exported.args.popupBlocked) =>
    exported.thrown \notin {"", "No entries to export",
                            "Failed to export PDF. Please try again."}

\* The character references that stand for text in markup.
Entities == { <<"a","m","p",";">>, <<"l","t",";">>, <<"g","t",";">>, <<"q","u","o","t",";">>, <<"#","3","9",";">> }

\* The markup is text only: no '<', no '>', and every '&' starts a character
\* reference.
IsEscapedText(markup) ==
  \A i \in 1..Len(markup) :
    /\ markup[i] \notin {"<", ">"}
    /\ markup[i] = "&" =>
         \E e \in Entities : SubSeq(markup, i + 1, i + Len(e)) = e

\* C17: every data cell of the document exportToPDF writes is escaped text.
C17_CellsAreEscaped ==
  (Ran("exportToPDF") /\ exported.thrown = "") =>
    \A i \in 1..Len(exported.cells) :
      \A j \in 1..Len(exported.cells[i]) : IsEscapedText(exported.cells[i][j])

\* C18: the download name exportToXLSX gives its link ends with '.csv', for
\* every filename.
C18_DownloadNameEndsWithCsv ==
  (Ran("exportToXLSX") /\ exported.thrown = "") =>
    endsWith(exported.download, <<".","c","s","v">>)


\* ------------------------------- claims about the CSV helpers and validators

\* C19: parsing the text escapeCSVField made of a field with parseCSVLine
\* gives exactly one field, equal to the original, for every field of letters,
\* spaces, commas, double quotes and line feeds.
C19_CsvFieldRoundTrip ==
  evaluated.fn = "parseCSVLine" => evaluated.result = <<evaluated.written>>

\* The string is empty or holds white space only.
IsBlank(value) == \A i \in 1..Len(value) : value[i] \in WhiteSpace

\* The string is a decimal numeral: a sign or none, then digits with at most
\* one point among them, white space around it allowed.
IsRealNumeral(value) ==
  LET t == JsTrim(value)
      body == IF t # <<>> /\ Head(t) \in {"-", "+"} THEN Tail(t) ELSE t
  IN /\ \E i \in 1..Len(body) : isDigit(body[i])
     /\ \A i \in 1..Len(body) : isDigit(body[i]) \/ body[i] = "."
     /\ Cardinality({i \in 1..Len(body) : body[i] = "."}) <= 1

\* The numeral denotes a number greater than 0.
IsPositiveNumeral(value) ==
  /\ Head(JsTrim(value)) # "-"
  /\ \E i \in 1..Len(value) : isDigit(value[i]) /\ value[i] # "0"

\* The message the mobile number validator is to give, "" to pass.
MobileVerdict(value) ==
  IF IsBlank(value) THEN "Mobile Number is required"
  ELSE IF \E i \in 1..Len(value) : ~isDigit(value[i])
  THEN "Mobile Number must contain only digits"
  ELSE IF Len(value) \notin 10..15
  THEN "Mobile Number must be between 10 and 15 digits"
  ELSE ""

\* The message the amount validator is to give, "" to pass.
AmountVerdict(value) ==
  IF IsBlank(value) THEN "Amount is required"
  ELSE IF ~IsRealNumeral(value) THEN "Amount must be a valid number"
  ELSE IF ~IsPositiveNumeral(value) THEN "Amount must be greater than 0"
  ELSE ""

\* C20: validateMobileNumber passes exactly the non-blank strings of 10 to 15
\* digits and validateAmount exactly the non-blank strings that are a real
\* number greater than 0; each gives the message of the first failing check,
\* emptiness first.
C20_ValidatorsFirstFailingCheck ==
  /\ (evaluated.fn = "validateMobileNumber" /\ evaluated.done) =>
       evaluated.result =
         [isValid |-> MobileVerdict(evaluated.arg) = "",
          error |-> MobileVerdict(evaluated.arg)]
  /\ (evaluated.fn = "validateAmount" /\ evaluated.done) =>
       evaluated.result =
         [isValid |-> AmountVerdict(evaluated.arg) = "",
          error |-> AmountVerdict(evaluated.arg)]

\* ------------------------------------------------------------ the aggregator

\* A whole number too large for one machine integer: high * 2^53 + low, with
\* low far below 2^53.  The bigint amounts of the store and the whole numbers
\* held in JavaScript numbers are written this way.
Whole(high, low) == [high |-> high, low |-> low]

\* The distance between neighbouring doubles from high * 2^53 on: 1 below
\* 2^53, 2 up to 2^54, 4 up to 2^55, ...
RECURSIVE ulp(_)
ulp(high) == IF high = 0 THEN 1 ELSE 2 * ulp(high \div 2)

\* low rounded to the nearest multiple of gap, a tie going to the even
\* multiple (IEEE 754 round-to-nearest-even).
roundToNearestEven(low, gap) ==
  IF 2 * (low % gap) < gap \/ (2 * (low % gap) = gap /\ (low \div gap) % 2 = 0)
  THEN (low \div gap) * gap
  ELSE (low \div gap + 1) * gap

\* The double nearest to a whole number.
toDouble(n) == Whole(n.high, roundToNearestEven(n.low, ulp(n.high)))

\* Number(entry.amountRs): bigint to double.
Number(amountRs) == toDouble(amountRs)

\* a + b on doubles that hold whole numbers: the exact sum, rounded.
plus(a, b) == toDouble(Whole(a.high + b.high, a.low + b.low))

getFullYear(date) == civilFromDays(date.dayNumber).year

getMonth(date) == civilFromDays(date.dayNumber).month

monthNames ==
  <<"Jan", "Feb", "Mar", "Apr", "May", "Jun",
    "Jul", "Aug", "Sep", "Oct", "Nov", "Dec">>

\* { totalAmount, count } with an amount added.
addAmount(existing, amountRs) ==
  [totalAmount |-> plus(existing.totalAmount, Number(amountRs)),
   count |-> existing.count + 1]

ZeroData == [totalAmount |-> Whole(0, 0), count |-> 0]

\* The body of aggregateByMonth's forEach that adds the entry whatever its
\* year is.
addToMonthAnyYear(monthlyMap, date, amountRs, year) ==
  IF date.isNull THEN monthlyMap
  ELSE [monthlyMap EXCEPT ![getMonth(date)] = addAmount(@, amountRs)]

\* The body of aggregateByMonth's forEach, for an entry whose manualDate
\* parsed to date.
addToMonth(monthlyMap, date, amountRs, year) ==
  IF date.isNull THEN monthlyMap
  ELSE IF getFullYear(date) = year
  THEN [monthlyMap EXCEPT ![getMonth(date)] = addAmount(@, amountRs)]
  ELSE monthlyMap

\* monthlyMap once forEach has visited the first n entries.
RECURSIVE monthlyMapAfter(_, _, _)
monthlyMapAfter(entryList, year, n) ==
  IF n = 0 THEN [i \in 0..11 |-> ZeroData]
  ELSE addToMonth(monthlyMapAfter(entryList, year, n - 1),
                  parseManualDate(entryList[n].manualDate),
                  entryList[n].amountRs, year)

\* Array.from(monthlyMap.entries()).map(...): the keys in insertion order.
monthlyData(monthlyMap) ==
  [i \in 1..12 |->
     [month |-> monthNames[i], monthIndex |-> i - 1,
      totalAmount |-> monthlyMap[i - 1].totalAmount,
      count |-> monthlyMap[i - 1].count]]

aggregateByMonth(entryList, year) ==
  monthlyData(monthlyMapAfter(entryList, year, Len(entryList)))

\* yearlyMap.get(year) || { totalAmount: 0, count: 0 }
getOrZero(yearlyMap, year) ==
  IF year \in DOMAIN yearlyMap THEN yearlyMap[year] ELSE ZeroData

\* The body of aggregateByYear's forEach.
addToYear(yearlyMap, date, amountRs) ==
  IF date.isNull THEN yearlyMap
  ELSE Put(yearlyMap, getFullYear(date),
           addAmount(getOrZero(yearlyMap, getFullYear(date)), amountRs))

\* yearlyMap once forEach has visited the first n entries.
RECURSIVE yearlyMapAfter(_, _)
yearlyMapAfter(entryList, n) ==
  IF n = 0 THEN <<>>
  ELSE addToYear(yearlyMapAfter(entryList, n - 1),
                 parseManualDate(entryList[n].manualDate),
                 entryList[n].amountRs)

\* .sort((a, b) => b - a) of distinct numbers.
sortDescending(numbers) ==
  [i \in 1..Cardinality(numbers) |->
     nth(numbers, Cardinality(numbers) + 1 - i)]

\* The buckets sorted with the comparator turned round: latest year first.
sortByYearDescending(buckets) ==
  [i \in 1..Cardinality(buckets) |->
     CHOOSE b \in buckets :
       Cardinality({c \in buckets : c.year >= b.year}) = i]

\* buckets.sort((a, b) => a.year - b.year), the years being distinct.
sortByYear(buckets) ==
  [i \in 1..Cardinality(buckets) |->
     CHOOSE b \in buckets :
       Cardinality({c \in buckets : c.year <= b.year}) = i]

\* Array.from(yearlyMap.entries()).map(...).sort(...)
yearlyData(yearlyMap) ==
  sortByYear({[year |-> year, totalAmount |-> yearlyMap[year].totalAmount,
               count |-> yearlyMap[year].count] : year \in DOMAIN yearlyMap})

aggregateByYear(entryList) ==
  yearlyData(yearlyMapAfter(entryList, Len(entryList)))

\* The body of getAvailableYears' forEach.
addYear(years, date) ==
  IF date.isNull THEN years ELSE years \cup {getFullYear(date)}

RECURSIVE yearsAfter(_, _)
yearsAfter(entryList, n) ==
  IF n = 0 THEN {}
  ELSE addYear(yearsAfter(entryList, n - 1),
               parseManualDate(entryList[n].manualDate))

getAvailableYears(entryList) ==
  sortDescending(yearsAfter(entryList, Len(entryList)))

\* ----------------------------------------------------- the aggregator called

\* The entries the aggregator is given: two of January 2024 and two of
\* December 2024, one of them of 2^53 rupees, one of 2023, one whose date is
\* no calendar day and one whose date is not in the format.
AnalyticsPool ==
  { Entry("c1", <<"2","0","2","4","-","0","1","-","1","5">>, <<"J","a","n","e">>, <<"1","2","3","4","5","6","7","8","9","0">>, Whole(0, 500)),
    Entry("c2", <<"2","0","2","4","-","0","1","-","3","1">>, <<"A","l">>, <<"5","5","5","0","0","0","1","1","1","1">>, Whole(0, 7)),
    Entry("c3", <<"2","0","2","4","-","1","2","-","3","1">>, <<"B","o">>, <<"1","0","9","8","7","6","5","4","3","2">>, Whole(1, 0)),
    Entry("c4", <<"2","0","2","4","-","1","2","-","0","1">>, <<"C","y">>, <<"1","1","1","2","2","2","3","3","3","4">>, Whole(0, 1)),
    Entry("c5", <<"2","0","2","3","-","0","1","-","1","5">>, <<"D","i">>, <<"2","2","2","3","3","3","4","4","4","5">>, Whole(0, 40)),
    Entry("c6", <<"2","0","2","4","-","0","2","-","3","0">>, <<"E","d">>, <<"3","3","3","4","4","4","5","5","5","6">>, Whole(0, 3)),
    Entry("c7", <<"1","/","2","/","2","4">>, <<"F","l","o">>, <<"4","4","4","5","5","5","6","6","6","7">>, Whole(0, 9)) }

\* The lists of up to n different members of a pool.
RECURSIVE DistinctLists(_, _)
DistinctLists(pool, n) ==
  IF n = 0 THEN {<<>>}
  ELSE DistinctLists(pool, n - 1)
       \cup {Append(p[1], p[2]) :
               p \in {q \in DistinctLists(pool, n - 1) \X pool :
                        /\ Len(q[1]) = n - 1
                        /\ \A k \in 1..Len(q[1]) : q[1][k] # q[2]}}

\* The entry lists given to the aggregator.
AnalyticsLists == DistinctLists(AnalyticsPool, MaxEntries)

AnalyticsYears == {2023, 2024, 2025}

AnalyticsCalls ==
  {Evaluating("aggregateByMonth", [entries |-> l, year |-> y]) :
     l \in AnalyticsLists, y \in AnalyticsYears}
  \cup {Evaluating(fn, [entries |-> l]) :
          fn \in {"aggregateByYear", "getAvailableYears"},
          l \in AnalyticsLists}

callAggregateByMonth ==
  /\ evaluated.fn = "aggregateByMonth" /\ ~evaluated.done
  /\ evaluated' = [evaluated EXCEPT
                     !.done = TRUE,
                     !.result = aggregateByMonth(evaluated.arg.entries,
                                                 evaluated.arg.year)]
  /\ UNCHANGED <<entries, now, reply, identity, raised, query, exported>>
  /\ UNCHANGED importVars

callAggregateByYear ==
  /\ evaluated.fn = "aggregateByYear" /\ ~evaluated.done
  /\ evaluated' = [evaluated EXCEPT
                     !.done = TRUE,
                     !.result = aggregateByYear(evaluated.arg.entries)]
  /\ UNCHANGED <<entries, now, reply, identity, raised, query, exported>>
  /\ UNCHANGED importVars

callGetAvailableYears ==
  /\ evaluated.fn = "getAvailableYears" /\ ~evaluated.done
  /\ evaluated' = [evaluated EXCEPT
                     !.done = TRUE,
                     !.result = getAvailableYears(evaluated.arg.entries)]
  /\ UNCHANGED <<entries, now, reply, identity, raised, query, exported>>
  /\ UNCHANGED importVars

\* One call of the aggregator, with its arguments chosen at the start.
InitAnalytics ==
  /\ InitStore
  /\ InitClient
  /\ identity = "alice"
  /\ exported = NoExport
  /\ evaluated \in AnalyticsCalls

NextAnalytics ==
  \/ callAggregateByMonth
  \/ callAggregateByYear
  \/ callGetAvailableYears

SpecAnalytics == InitAnalytics /\ [][NextAnalytics]_vars

\* ---------------------------------------------- claims about the aggregator

\* The entries of a list whose date parses to a day of the year, by position.
InYear(entryList, year) ==
  {k \in 1..Len(entryList) :
     /\ ~parseManualDate(entryList[k].manualDate).isNull
     /\ getFullYear(parseManualDate(entryList[k].manualDate)) = year}

\* Those of them that fall in the month (0..11).
InMonth(entryList, year, month) ==
  {k \in InYear(entryList, year) :
     getMonth(parseManualDate(entryList[k].manualDate)) = month}

\* The exact sum of the amounts at the positions K.
RECURSIVE SumOfAmounts(_, _)
SumOfAmounts(entryList, K) ==
  IF K = {} THEN Whole(0, 0)
  ELSE LET k == CHOOSE x \in K : TRUE
           rest == SumOfAmounts(entryList, K \ {k})
       IN Whole(rest.high + entryList[k].amountRs.high,
                rest.low + entryList[k].amountRs.low)

JanToDec ==
  <<"Jan", "Feb", "Mar", "Apr", "May", "Jun",
    "Jul", "Aug", "Sep", "Oct", "Nov", "Dec">>

\* The 12 buckets are there, in order, and count the right entries.
TwelveBucketsCounted ==
  /\ Len(evaluated.result) = 12
  /\ \A i \in 1..12 :
       /\ evaluated.result[i].month = JanToDec[i]
       /\ evaluated.result[i].monthIndex = i - 1
       /\ evaluated.result[i].count =
            Cardinality(InMonth(evaluated.arg.entries, evaluated.arg.year,
                                i - 1))

\* C21 as claimed: aggregateByMonth returns 12 buckets Jan..Dec with
\* monthIndex 0..11; a bucket's count is the number of entries whose date
\* parses to the year and that month and its totalAmount is the sum of their
\* amounts.
C21_BucketsHoldExactSums ==
  (evaluated.fn = "aggregateByMonth" /\ evaluated.done) =>
    /\ TwelveBucketsCounted
    /\ \A i \in 1..12 :
         evaluated.result[i].totalAmount =
           SumOfAmounts(evaluated.arg.entries,
                        InMonth(evaluated.arg.entries, evaluated.arg.year,
                                i - 1))

\* C21 amended: the same, the totalAmount being the sum of the amounts
\* whenever that sum is below 2^53, the range in which a JavaScript number
\* holds every whole number.
C21_BucketsHoldSumsBelow2To53 ==
  (evaluated.fn = "aggregateByMonth" /\ evaluated.done) =>
    /\ TwelveBucketsCounted
    /\ \A i \in 1..12 :
         LET sum == SumOfAmounts(evaluated.arg.entries,
                                 InMonth(evaluated.arg.entries,
                                         evaluated.arg.year, i - 1))
         IN sum.high = 0 => evaluated.result[i].totalAmount = sum

\* aggregateByMonth has run on a list with two entries of January 2024, one
\* of another year and one whose date does not parse.
C21_Witness ==
  /\ evaluated.fn = "aggregateByMonth" /\ evaluated.done
  /\ evaluated.arg.year = 2024
  /\ Len(evaluated.arg.entries) = 3
  /\ evaluated.result[1].count = 2
  /\ evaluated.result[1].totalAmount = Whole(0, 507)
  /\ \E k \in 1..3 : evaluated.arg.entries[k].id = "c5"

\* The years of the dates of a list that parse.
ParsedYears(entryList) ==
  {getFullYear(parseManualDate(entryList[k].manualDate)) :
     k \in {j \in 1..Len(entryList) :
              ~parseManualDate(entryList[j].manualDate).isNull}}

\* A list of records or numbers names each year of a set once, in the order
\* given by before.
NamesYearsInOrder(years, listed, before(_, _)) ==
  /\ Len(listed) = Cardinality(years)
  /\ {listed[i] : i \in 1..Len(listed)} = years
  /\ \A i \in 1..Len(listed) : \A j \in 1..Len(listed) :
       i < j => before(listed[i], listed[j])

\* The buckets of aggregateByYear name the parsed years once each, ascending,
\* with the right counts; getAvailableYears lists the same years descending.
YearsListedAndCounted ==
  /\ (evaluated.fn = "aggregateByYear" /\ evaluated.done) =>
       /\ NamesYearsInOrder(ParsedYears(evaluated.arg.entries),
                            [i \in 1..Len(evaluated.result) |->
                               evaluated.result[i].year],
                            LAMBDA a, b : a < b)
       /\ \A i \in 1..Len(evaluated.result) :
            evaluated.result[i].count =
              Cardinality(InYear(evaluated.arg.entries,
                                 evaluated.result[i].year))
  /\ (evaluated.fn = "getAvailableYears" /\ evaluated.done) =>
       NamesYearsInOrder(ParsedYears(evaluated.arg.entries),
                         evaluated.result, LAMBDA a, b : a > b)

\* C22 as claimed: aggregateByYear returns one bucket per distinct year among
\* the parseable dates, in strictly ascending order, with count and
\* totalAmount summed per year; getAvailableYears returns the same years in
\* strictly descending order.
C22_YearBucketsHoldExactSums ==
  /\ YearsListedAndCounted
  /\ (evaluated.fn = "aggregateByYear" /\ evaluated.done) =>
       \A i \in 1..Len(evaluated.result) :
         evaluated.result[i].totalAmount =
           SumOfAmounts(evaluated.arg.entries,
                        InYear(evaluated.arg.entries,
                               evaluated.result[i].year))

\* C22 amended: the same, the totalAmount of a year being the sum of its
\* amounts whenever that sum is below 2^53.
C22_YearBucketsHoldSumsBelow2To53 ==
  /\ YearsListedAndCounted
  /\ (evaluated.fn = "aggregateByYear" /\ evaluated.done) =>
       \A i \in 1..Len(evaluated.result) :
         LET sum == SumOfAmounts(evaluated.arg.entries,
                                 InYear(evaluated.arg.entries,
                                        evaluated.result[i].year))
         IN sum.high = 0 => evaluated.result[i].totalAmount = sum

\* aggregateByYear has run on a list that names 2024 before 2023 and has two
\* entries of 2024.
C22_Witness ==
  /\ evaluated.fn = "aggregateByYear" /\ evaluated.done
  /\ Len(evaluated.arg.entries) = 3
  /\ evaluated.arg.entries[1].id = "c1"
  /\ evaluated.arg.entries[2].id = "c5"
  /\ Len(evaluated.result) = 2
  /\ evaluated.result[1].year = 2023
  /\ evaluated.result[2].totalAmount = Whole(0, 507)

\* ------------------------------------------------- the date utilities called

\* n written with at least width digits (String(n).padStart(width, '0')).
Padded(n, width) ==
  [i \in 1..(width - Len(ToString(n))) |-> "0"] \o chars(ToString(n))

\* The text YYYY-MM-DD of a year, a month and a day, which need not exist.
DateText(year, month, day) ==
  Padded(year, 4) \o <<"-">> \o Padded(month, 2) \o <<"-">> \o Padded(day, 2)

\* A date string together with the numbers it was written from (ymd is <<>>
\* for a string that was not written from numbers).
DateCase(text, ymd) == [text |-> text, ymd |-> ymd]

\* The years, months and days written as YYYY-MM-DD: leap and common years,
\* a century year that is no leap year, one that is, a year below 100, and
\* the months and days one step outside the calendar.
CalendarYears == {50, 1900, 2000, 2021, 2023, 2024}

CalendarCases ==
  {DateCase(DateText(y, m, d), <<y, m, d>>) :
     y \in CalendarYears, m \in 0..13, d \in 0..32}

\* The text 2024-01-05 with one character left out, one character put in,
\* or one character put in place of another.
Edits(text, alphabet) ==
  {SubSeq(text, 1, i - 1) \o SubSeq(text, i + 1, Len(text)) :
     i \in 1..Len(text)}
  \cup {SubSeq(text, 1, i) \o <<c>> \o SubSeq(text, i + 1, Len(text)) :
          i \in 0..Len(text), c \in alphabet}
  \cup {SubSeq(text, 1, i - 1) \o <<c>> \o SubSeq(text, i + 1, Len(text)) :
          i \in 1..Len(text), c \in alphabet}

MalformedCases ==
  {DateCase(text, <<>>) :
     text \in Edits(<<"2","0","2","4","-","0","1","-","0","5">>, {"x", " ", "-", "/", "+", "1"})
              \cup {<<>>, <<"2","0","2","4","-","1","-","5">>, <<"2","0","2","4","-","0","1","-","0","5","x">>, <<"0","5","-","0","1","-","2","0","2","4">>,
                    <<"1","/","5","/","2","0","2","4">>}}

\* The days and zones of `new Date()` and the manual dates given to
\* calculateDaysSince: the days around both clock changes of 2024, two
\* neighbouring days of July, and the first and last day of the year.
ClockDays ==
  { <<2024, 1, 1>>, <<2024, 3, 9>>, <<2024, 3, 10>>, <<2024, 3, 11>>,
    <<2024, 7, 1>>, <<2024, 7, 2>>, <<2024, 11, 2>>, <<2024, 11, 3>>,
    <<2024, 11, 4>>, <<2024, 12, 31>> }

DateCalls ==
  {Evaluating("parseManualDate", case) :
     case \in CalendarCases \cup MalformedCases}
  \cup {Evaluating("calculateDaysSince",
                   [manualDate |-> DateCase(DateText(d[1], d[2], d[3]), d),
                    today |-> t, zone |-> zone]) :
          d \in ClockDays, t \in ClockDays, zone \in TimeZones}

callParseManualDate ==
  /\ evaluated.fn = "parseManualDate" /\ ~evaluated.done
  /\ evaluated' = [evaluated EXCEPT
                     !.done = TRUE,
                     !.result = parseManualDate(evaluated.arg.text)]
  /\ UNCHANGED <<entries, now, reply, identity, raised, query, exported>>
  /\ UNCHANGED importVars

\* calculateDaysSince is called on the local day arg.today: `new Date()` is
\* an instant of that day.
callCalculateDaysSince ==
  /\ evaluated.fn = "calculateDaysSince" /\ ~evaluated.done
  /\ evaluated' =
       [evaluated EXCEPT
          !.done = TRUE,
          !.result =
            calculateDaysSince(
              evaluated.arg.manualDate.text,
              LocalDay(daysFromCivil(evaluated.arg.today[1],
                                     evaluated.arg.today[2],
                                     evaluated.arg.today[3]),
                       evaluated.arg.zone))]
  /\ UNCHANGED <<entries, now, reply, identity, raised, query, exported>>
  /\ UNCHANGED importVars

\* One call of a date utility, with its arguments chosen at the start.
InitDates ==
  /\ InitStore
  /\ InitClient
  /\ identity = "alice"
  /\ exported = NoExport
  /\ evaluated \in DateCalls

NextDates ==
  \/ callParseManualDate
  \/ callCalculateDaysSince

SpecDates == InitDates /\ [][NextDates]_vars

\* ------------------------------------------- claims about the date utilities

IsLeapYear(year) ==
  year % 4 = 0 /\ (year % 100 # 0 \/ year % 400 = 0)

DaysInMonth(year, month) ==
  IF month = 2 THEN (IF IsLeapYear(year) THEN 29 ELSE 28)
  ELSE IF month \in {4, 6, 9, 11} THEN 30
  ELSE 31

\* year-month-day is a day of the (proleptic Gregorian) calendar.
IsCalendarDate(ymd) ==
  /\ ymd[1] >= 1
  /\ ymd[2] \in 1..12
  /\ ymd[3] \in 1..DaysInMonth(ymd[1], ymd[2])

\* The leap years from year 1 to the year.
LeapYearsUpTo(year) == year \div 4 - year \div 100 + year \div 400

\* The number of a calendar day, counted in days from 1970-01-01: the days
\* of the years before, of the months before, and of the month.
RECURSIVE DaysBeforeMonth(_, _)
DaysBeforeMonth(year, month) ==
  IF month = 1 THEN 0
  ELSE DaysBeforeMonth(year, month - 1) + DaysInMonth(year, month - 1)

DayOfCalendar(ymd) ==
  365 * (ymd[1] - 1970) + LeapYearsUpTo(ymd[1] - 1) - LeapYearsUpTo(1969)
  + DaysBeforeMonth(ymd[1], ymd[2]) + ymd[3] - 1

\* C23: parseManualDate never returns a rolled-over date: for a string
\* written from a year, a month and a day it returns a date only if
\* year-month-day is a calendar date, and the date returned is that day.
C23_NoRolledOverDate ==
  (/\ evaluated.fn = "parseManualDate" /\ evaluated.done
   /\ evaluated.arg.ymd # <<>>
   /\ ~evaluated.result.isNull) =>
    /\ IsCalendarDate(evaluated.arg.ymd)
    /\ evaluated.result.dayNumber = DayOfCalendar(evaluated.arg.ymd)

\* parseManualDate has returned the leap day 2024-02-29.
C23_Witness ==
  /\ evaluated.fn = "parseManualDate" /\ evaluated.done
  /\ evaluated.arg.ymd = <<2024, 2, 29>>
  /\ ~evaluated.result.isNull
  /\ evaluated.result.dayNumber = 19782

\* Four digits, '-', two digits, '-', two digits.
IsStrictForm(text) ==
  /\ Len(text) = 10
  /\ text[5] = "-" /\ text[8] = "-"
  /\ \A i \in {1, 2, 3, 4, 6, 7, 9, 10} : isDigit(text[i])

\* C24: parseManualDate accepts only strings in strict YYYY-MM-DD form: every
\* string that is not four digits, '-', two digits, '-', two digits yields
\* no date.
C24_OnlyStrictFormAccepted ==
  (/\ evaluated.fn = "parseManualDate" /\ evaluated.done
   /\ ~IsStrictForm(evaluated.arg.text)) =>
    evaluated.result.isNull

\* C25: calculateDaysSince returns the calendar-day difference between today
\* and the manual date: 0 for today, 1 for yesterday, -1 for tomorrow, also
\* when a 23-hour or 25-hour day lies between the two local midnights.
C25_CalendarDayDifference ==
  (evaluated.fn = "calculateDaysSince" /\ evaluated.done) =>
    /\ ~evaluated.result.isNull
    /\ evaluated.result.days =
         DayOfCalendar(evaluated.arg.today)
         - DayOfCalendar(evaluated.arg.manualDate.ymd)

\* The difference is the calendar-day difference in the zone without clock
\* changes.
DayDifferenceWithoutClockChanges ==
  (/\ evaluated.fn = "calculateDaysSince" /\ evaluated.done
   /\ evaluated.arg.zone = "UTC") =>
    /\ ~evaluated.result.isNull
    /\ evaluated.result.days =
         DayOfCalendar(evaluated.arg.today)
         - DayOfCalendar(evaluated.arg.manualDate.ymd)

\* ------------------------------------------ claims about the import's gate

\* The name ends with .csv or .xlsx, in any mix of upper and lower case.
HasImportExtension(name) ==
  LET last(n) == SubSeq(name, Len(name) - n + 1, Len(name))
      is(text, letters) ==
        /\ Len(text) = Len(letters)
        /\ \A i \in 1..Len(letters) : text[i] \in letters[i]
  IN \/ Len(name) >= 4
        /\ is(last(4), <<{"."}, {"c", "C"}, {"s", "S"}, {"v", "V"}>>)
     \/ Len(name) >= 5
        /\ is(last(5),
              <<{"."}, {"x", "X"}, {"l", "L"}, {"s", "S"}, {"x", "X"}>>)

\* The file was handed to the parser, or a create call was started for it.
ParseOrCreateHappened ==
  \/ pc \in {"parsing", "parsed", "readFailed", "loop", "awaiting"}
  \/ parsePromise # Pending
  \/ issued # <<>>
  \/ inflight # {}
  \/ isImporting

\* C26: a file selected for import is parsed and may create entries only if
\* the user is authenticated and the file name ends, case-insensitively, with
\* '.xlsx' or '.csv'; otherwise no parse happens and no create call is made;
\* a file of either extension goes through the same delimited-text parser.
C26_ImportGate ==
  /\ ParseOrCreateHappened =>
       /\ isAuthenticated
       /\ fileName # <<>>
       /\ HasImportExtension(fileName)
  /\ (fileName # <<>> /\ ~(isAuthenticated /\ HasImportExtension(fileName)))
       => (pc = "done" /\ ~ParseOrCreateHappened)
  /\ parsePromise # Pending =>
       parsePromise \in {parseXLSXFile(fileText),
                         Rejected("Failed to read file")}

\* A file named A.XLSX was parsed as delimited text and a create call was
\* started for one of its rows.
C26_Witness ==
  /\ fileName = <<"A",".","X","L","S","X">>
  /\ parsePromise = parseXLSXFile(fileText)
  /\ issued # <<>>

\* A file was turned away for its name, and one because the user had signed
\* out.
TurnedAwayForName ==
  /\ fileName = <<"a",".","x","l","s","x",".","t","x","t">> /\ pc = "done" /\ isAuthenticated
  /\ toasts = <<Toast("error", "Please select a valid XLSX or CSV file")>>

TurnedAwaySignedOut ==
  /\ fileName = <<"a",".","c","s","v">> /\ pc = "done" /\ ~isAuthenticated
  /\ toasts = <<Toast("error", getCreateEntryAuthMessage)>>


\* ---------------------------------------------------------------------------
\* C27. Every amount string accepted by validateAmount is sent to the store as
\* a positive integer: each create call the import has under way for a row
\* that passed validateRow carries amountRs >= 1, and the store never answers
\* such a call with invalidAmount.
C27_ValidatedAmountIsPositive ==
  /\ \A k \in 1..Len(validRows) :
       validateAmount(validRows[k].amountRs).isValid
  /\ \A call \in inflight : call.input.amountRs >= 1
  /\ reply.kind # "invalidAmount"

\* A row whose amount passed validateAmount is on its way to the store as 0.
ValidatedAmountSentAsZero ==
  \E call \in inflight :
    /\ validateAmount(validRows[call.row].amountRs).isValid
    /\ call.input.amountRs = 0


\* ---------------------------------------------------------------------------
\* C28. Every store call that answers with an error or traps leaves the entry
\* map as it was: in every step after which the store's last answer is not
\* the null (success) answer, the map is the same before and after.
C28_FailedCallLeavesMapUnchanged ==
  [][reply'.kind # "ok" => entries' = entries]_vars

\* A caller who is a user but neither the owner nor an admin has been refused
\* while the entry in question is in the map.
C28_Witness ==
  /\ reply.kind = "unauthorized"
  /\ DOMAIN entries # {}
  /\ \E id \in DOMAIN entries : entries[id].owner \in {"alice", "bob"}


\* ------------------------------------------- an exported file read back in

\* reader.readAsText(file): the text of the file's bytes; the UTF-8 decoder
\* takes a byte order mark at the start of the file away.
readAsText(content) ==
  IF content # <<>> /\ Head(content) = Head(BOM) THEN Tail(content)
  ELSE content

\* The entries exported and read back: plain ones, names with a comma, with
\* quotes, with a space in front and with a line feed inside.
RoundTripPool ==
  { Entry("c1", <<"2","0","2","4","-","0","3","-","0","1">>, <<"J","a","n","e">>, <<"1","2","3","4","5","6","7","8","9","0">>, 500),
    Entry("c2", <<"2","0","2","4","-","0","2","-","2","8">>, <<"D","o","e",","," ","J">>, <<"5","5","5","0","0","0","1","1","1","1">>, 7),
    Entry("c3", <<"1","/","2","/","2","4">>, <<"A","l"," ","\"","B","i","g","\""," ","C","o">>, <<"1","0","9","8","7","6","5","4","3","2">>, 12),
    Entry("c4", <<"2","0","2","4","-","0","3","-","0","1">>, <<"\"","Q","\"">>, <<"1","2","3","4","5","6","7","8","9","0","1","2","3","4","5">>, 1),
    Entry("c5", <<"2","0","2","4","-","0","3","-","0","1">>, <<" ","B","o","b">>, <<"1","2","3","4","5","6","7","8","9","0">>, 3),
    Entry("c6", <<"2","0","2","4","-","0","3","-","0","1">>, <<"A","n","n","\n","L","e","e">>, <<"1","2","3","4","5","6","7","8","9","0">>, 4) }

\* The entry lists exported: one or two entries of the pool.
RoundTripLists ==
  {<<e>> : e \in RoundTripPool}
  \cup {pair \in RoundTripPool \X RoundTripPool : pair[1] # pair[2]}

RoundTripCalls ==
  { Calling(fn, ExportArgs(entryList, filename, LocalDay(19783, "UTC"))) :
      fn \in {"exportToCSV", "exportToXLSX"},
      entryList \in RoundTripLists,
      filename \in {<<"e","n","t","r","i","e","s",".","c","s","v">>} }

\* parseXLSXFile is given the file an exporter wrote.
callParseXLSXFile ==
  /\ exported.done /\ exported.thrown = ""
  /\ parsePromise.status = "pending"
  /\ fileName' = exported.download
  /\ fileText' = readAsText(exported.content)
  /\ parsePromise' = parseXLSXFile(readAsText(exported.content))
  /\ UNCHANGED <<pc, isImporting, validRows, parseErrors, rowIdx,
                 successCount, failCount, inflight, idSeed, issued, settled,
                 invalidateLog, toasts>>
  /\ UNCHANGED <<entries, now, reply, identity,
                 exported, evaluated, raised, query>>

\* One list is exported by one of the CSV exporters and the file is parsed.
InitRoundTrip ==
  /\ InitStore
  /\ InitClient
  /\ identity = "alice"
  /\ exported \in RoundTripCalls
  /\ evaluated = NoCall

NextRoundTrip ==
  \/ callExportToCSV
  \/ callExportToXLSX
  \/ callParseXLSXFile

SpecRoundTrip == InitRoundTrip /\ [][NextRoundTrip]_vars

\* ---------------------------------------------------------------------------
\* C29. Export then import is a round trip on the four data fields: for every
\* non-empty list of entries the client validators accept, parseXLSXFile of
\* the text the CSV or XLSX exporter wrote resolves with no errors and with
\* one valid row per entry, in the same order, holding the entry's
\* manualDate, customerName and mobileNumber and an amount text whose value
\* is the entry's amountRs.
AcceptedByValidators(entry) ==
  validateRow([manualDate |-> entry.manualDate,
               customerName |-> entry.customerName,
               mobileNumber |-> entry.mobileNumber,
               amountRs |-> chars(ToString(entry.amountRs))], 1) = ""

SameDataFields(row, entry) ==
  /\ row.manualDate = entry.manualDate
  /\ row.customerName = entry.customerName
  /\ row.mobileNumber = entry.mobileNumber
  /\ ~parseFloat(row.amountRs).isNaN
  /\ ~parseFloat(row.amountRs).neg
  /\ ~parseFloat(row.amountRs).fracNonZero
  /\ parseFloat(row.amountRs).int = entry.amountRs

ReadBack == exported.done /\ parsePromise.status # "pending"

RoundTrip(entryList, parsed) ==
  /\ parsed.status = "resolved"
  /\ parsed.errors = <<>>
  /\ Len(parsed.validRows) = Len(entryList)
  /\ \A i \in 1..Len(entryList) :
       i <= Len(parsed.validRows)
       /\ SameDataFields(parsed.validRows[i], entryList[i])

C29_ExportImportRoundTrip ==
  (/\ ReadBack
   /\ \A i \in 1..Len(exported.args.entries) :
        AcceptedByValidators(exported.args.entries[i]))
  => RoundTrip(exported.args.entries, parsePromise)

\* Trimmed(text): the text has no white space at either end.
Trimmed(text) == JsTrim(text) = text

\* The round trip for lists in which no data field has white space at an end
\* or a line feed inside.
RoundTripOfTrimmedSingleLineFields ==
  (/\ ReadBack
   /\ \A i \in 1..Len(exported.args.entries) :
        /\ AcceptedByValidators(exported.args.entries[i])
        /\ Trimmed(exported.args.entries[i].manualDate)
        /\ Trimmed(exported.args.entries[i].customerName)
        /\ ~includes(exported.args.entries[i].manualDate, "\n")
        /\ ~includes(exported.args.entries[i].customerName, "\n"))
  => RoundTrip(exported.args.entries, parsePromise)

\* A list with quotes and a comma in its names has been exported and read
\* back.
QuotedNamesReadBack ==
  /\ ReadBack
  /\ Len(exported.args.entries) = 2
  /\ exported.args.entries[1].id = "c2"
  /\ exported.args.entries[2].id = "c3"
  /\ RoundTrip(exported.args.entries, parsePromise)


\* ---------------------------------------------------- the import's progress

\* The import under the scheduling the browser gives it: the file reader
\* fires onload or onerror, the continuation of handleFileChange runs once
\* the promise it awaits has settled, and every create call that was started
\* resolves or rejects.
SpecImportFair ==
  /\ InitImport /\ [][NextImport]_vars
  /\ WF_vars(readerOnError \/ readerOnLoad)
  /\ WF_vars(afterParse)
  /\ WF_vars(\E actorReady \in BOOLEAN : mutateStart(actorReady))
  /\ WF_vars(\E call \in inflight : createRejected(call) \/ createAnswered(call))
  /\ WF_vars(importFinish)

\* ---------------------------------------------------------------------------
\* C30. Every import that is started (isImporting set) reaches the end of
\* handleFileChange with isImporting false again, whatever the parse and the
\* create calls give, provided every create call settles; and while
\* isImporting is true no step opens the file dialog from the import button.
ImportEnded == pc = "done" /\ ~isImporting

C30_ImportEndsAndButtonIsLocked ==
  /\ isImporting ~> ImportEnded
  /\ [][isImporting => ~(pc # "picker" /\ pc' = "picker")]_vars

\* An import in which every create call failed has ended with the flag false.
C30_Witness ==
  /\ ImportEnded
  /\ issued # <<>>
  /\ successCount = 0
  /\ failCount = Len(validRows)

ParseRejectedEnded ==
  ImportEnded /\ fileText # <<>> /\ parsePromise.status = "rejected"

NoValidRowEnded ==
  ImportEnded /\ parsePromise.status = "resolved"
  /\ Len(parsePromise.validRows) = 0

FullSuccessEnded ==
  ImportEnded /\ issued # <<>> /\ failCount = 0
  /\ successCount = Len(validRows)

\* The flag is set from the start of the parse to the end of the loop.
FlagSetWhileRunning ==
  pc \in {"parsing", "parsed", "readFailed", "loop", "awaiting"}
  <=> isImporting

====
